---------------------------- MODULE Spec2Model ----------------------------
(***************************************************************************)
(* Art Split Merger: the layout geometry of the CLI (cli/splitmerge.js)    *)
(* and of the interactive renderer (core/imageProcessor.js, the version    *)
(* with per-image transforms), and the fit calculator both share.          *)
(*                                                                         *)
(* JavaScript numbers are modelled as exact rationals extended with        *)
(* +Infinity, -Infinity and NaN: a number is a record [n, d] in lowest     *)
(* terms with d > 0, or d = 0 and n = 1 (+Infinity), n = -1 (-Infinity),   *)
(* n = 0 (NaN).                                                            *)
(***************************************************************************)
EXTENDS Integers, Sequences, FiniteSets, TLC

VARIABLES
    fitArgs,      \* arguments of the fitInBox call under test
    fitResult,    \* what fitInBox returned for fitArgs
    images,       \* the image list handed to mergeImages
    options,      \* the merge options handed to mergeImages
    cliResult,    \* outcome of cli/splitmerge.js mergeImages(images, options)
    uiResult,     \* outcome of imageProcessor.js mergeImages(images, options)
    output,       \* the CLI's out-path extension and --quality value
    cliRun,       \* steps the CLI merge went through and what it encoded
    editor,       \* ui/app.js: transform of image 0 and the crop editor's state
    grouping,     \* ui/app.js: a batch drop and the batch queue it fills
    batch,        \* cli/splitmerge.js runBatch: items, loop position, tallies
    parsed,       \* cli/splitmerge.js: a command line or colour string and its parse
    app,          \* ui/app.js: slots, layout, preview and pending work of the app
    queue         \* ui/app.js: batchState and the position of runBatchMerge

vars == <<fitArgs, fitResult, images, options, cliResult, uiResult,
          output, cliRun, editor, grouping, batch, parsed, app, queue>>

---------------------------------------------------------------------------
(* JavaScript number arithmetic                                            *)

Abs(k) == IF k < 0 THEN -k ELSE k

Sign(k) == IF k < 0 THEN -1 ELSE IF k > 0 THEN 1 ELSE 0

RECURSIVE GCD(_, _)
GCD(a, b) == IF b = 0 THEN a ELSE GCD(b, a % b)

Norm(n, d) ==
    IF d = 0 THEN [n |-> Sign(n), d |-> 0]
    ELSE LET g == GCD(Abs(n), Abs(d))
             s == IF d < 0 THEN -1 ELSE 1
         IN  [n |-> (s * n) \div g, d |-> (s * d) \div g]

Num(k) == [n |-> k, d |-> 1]

NaN == [n |-> 0, d |-> 0]

Infinity == [n |-> 1, d |-> 0]

IsNaN(a) == a.d = 0 /\ a.n = 0

IsFinite(a) == a.d # 0

IsInteger(a) == a.d = 1

QNeg(a) == [n |-> -a.n, d |-> a.d]

QAdd(a, b) ==
    IF a.d = 0 /\ b.d = 0
    THEN (IF a.n = b.n THEN a ELSE NaN)
    ELSE Norm(a.n * b.d + b.n * a.d, a.d * b.d)

QSub(a, b) == QAdd(a, QNeg(b))

QMul(a, b) == Norm(a.n * b.n, a.d * b.d)

QRecip(b) ==
    IF b.n < 0 THEN [n |-> -b.d, d |-> -b.n] ELSE [n |-> b.d, d |-> b.n]

QDiv(a, b) == QMul(a, QRecip(b))

\* a < b as JavaScript compares numbers: false when either is NaN
QLt(a, b) ==
    /\ ~IsNaN(a)
    /\ ~IsNaN(b)
    /\ IF a.d = 0 /\ b.d = 0 THEN a.n < b.n ELSE a.n * b.d < b.n * a.d

QGt(a, b) == QLt(b, a)

QLe(a, b) == ~IsNaN(a) /\ ~IsNaN(b) /\ ~QLt(b, a)

\* a value used as a condition: 0 and NaN are falsy
Truthy(a) == a.n # 0

MathMin(a, b) ==
    IF IsNaN(a) \/ IsNaN(b) THEN NaN ELSE IF QLt(b, a) THEN b ELSE a

MathMax(a, b) ==
    IF IsNaN(a) \/ IsNaN(b) THEN NaN ELSE IF QLt(a, b) THEN b ELSE a

\* Math.round: nearest integer, halves towards +Infinity
MathRound(a) ==
    IF a.d = 0 THEN a ELSE Num((2 * a.n + a.d) \div (2 * a.d))

MathFloor(a) == IF a.d = 0 THEN a ELSE Num(a.n \div a.d)

---------------------------------------------------------------------------
(* Fit calculator                                                          *)

\* fitInBox truncating the scaled size instead of rounding it
fitInBoxFloor(srcW, srcH, targetW, targetH) ==
    LET scale == MathMin(QDiv(targetW, srcW), QDiv(targetH, srcH))
        w == MathFloor(QMul(srcW, scale))
        h == MathFloor(QMul(srcH, scale))
        offsetX == MathRound(QDiv(QSub(targetW, w), Num(2)))
        offsetY == MathRound(QDiv(QSub(targetH, h), Num(2)))
    IN  [w |-> w, h |-> h, offsetX |-> offsetX, offsetY |-> offsetY]

fitInBox(srcW, srcH, targetW, targetH) ==
    LET scale == MathMin(QDiv(targetW, srcW), QDiv(targetH, srcH))
        w == MathRound(QMul(srcW, scale))
        h == MathRound(QMul(srcH, scale))
        offsetX == MathRound(QDiv(QSub(targetW, w), Num(2)))
        offsetY == MathRound(QDiv(QSub(targetH, h), Num(2)))
    IN  [w |-> w, h |-> h, offsetX |-> offsetX, offsetY |-> offsetY]

---------------------------------------------------------------------------
(* Inputs and results of a merge                                           *)

\* An absent image: a path that does not exist (CLI), a null slot (renderer)
NoImg == [present |-> FALSE, width |-> 0, height |-> 0]

Img(w, h) == [present |-> TRUE, width |-> w, height |-> h]

NoCrop ==
    [present |-> FALSE, x |-> NaN, y |-> NaN, w |-> NaN, h |-> NaN,
     width |-> NaN, height |-> NaN]

\* Only the fields of a transform that enter the geometry are kept: flips,
\* brightness and contrast change pixels, never a rectangle.
IdentityTransform == [rotate |-> 0, crop |-> NoCrop]

\* images[i] and transforms[i] with JavaScript's 0-based index; reading past
\* the end gives undefined, which is falsy / replaced by the default {}
ImgAt(imgs, i) == IF i + 1 \in DOMAIN imgs THEN imgs[i + 1] ELSE NoImg

TransformAt(transforms, i) ==
    IF i + 1 \in DOMAIN transforms THEN transforms[i + 1] ELSE IdentityTransform

Rect(x, y, w, h) == [x |-> x, y |-> y, w |-> w, h |-> h]

\* The outcome of a merge: the returned width/height, the slot rectangles, one
\* entry per painted image (its index, the painted rectangle, the slot it was
\* fitted into and the source size the fit used), the per-side source sizes the
\* Split sizing used, whether the canvas was created and the output written
NoResult ==
    [status |-> "none", width |-> NaN, height |-> NaN, slots |-> << >>,
     paints |-> << >>, sizing |-> << >>, allocated |-> FALSE, written |-> FALSE]

\* A merge that threw: `allocated` tells whether the canvas existed by then
Failure(kind, allocated) ==
    [status |-> kind, width |-> NaN, height |-> NaN, slots |-> << >>,
     paints |-> << >>, sizing |-> << >>, allocated |-> allocated, written |-> FALSE]

---------------------------------------------------------------------------
(* CLI: cli/splitmerge.js                                                  *)

DefaultCanvas == 3000

\* OrDefault ignoring the value it is given
OrDefaultFixed(v) == DefaultCanvas

\* `v || 3000`
OrDefault(v) == IF v # 0 THEN v ELSE DefaultCanvas

\* Split, width and height both given
CliSplitExplicit(o) == [outW |-> Num(o.width), outH |-> Num(o.height)]

\* Split, only width given
CliSplitFromWidth(left, right, o) ==
    LET hw == QDiv(QSub(Num(o.width), Num(o.gap)), Num(2))
        ls == QDiv(hw, Num(left.width))
        rs == QDiv(hw, Num(right.width))
    IN  [outW |-> Num(o.width),
         outH |-> MathRound(MathMax(QMul(Num(left.height), ls),
                                    QMul(Num(right.height), rs)))]

\* Split, only height given
CliSplitFromHeight(left, right, o) ==
    LET ls == QDiv(Num(o.height), Num(left.height))
        rs == QDiv(Num(o.height), Num(right.height))
    IN  [outW |-> MathRound(QAdd(QAdd(QMul(Num(left.width), ls),
                                      QMul(Num(right.width), rs)), Num(o.gap))),
         outH |-> Num(o.height)]

\* Split, neither given
CliSplitAuto(left, right, o) ==
    LET th == MathMax(Num(left.height), Num(right.height))
        ls == QDiv(th, Num(left.height))
        rs == QDiv(th, Num(right.height))
    IN  [outW |-> QAdd(QAdd(MathRound(QMul(Num(left.width), ls)),
                            MathRound(QMul(Num(right.width), rs))), Num(o.gap)),
         outH |-> th]

\* The second side of the CLI Split sizing: metas[1] || metas[0]
CliRightMeta(metas) == IF Len(metas) >= 2 THEN metas[2] ELSE metas[1]

\* Target dimensions and grid of the CLI merge (metas = the image metadata)
CliCanvas(metas, o) ==
    IF o.layout = "3" THEN
        [rows |-> 2, cols |-> 2, outW |-> Num(DefaultCanvas),
         outH |-> Num(DefaultCanvas), sizing |-> << >>]
    ELSE IF o.layout = "4" THEN
        [rows |-> 2, cols |-> 2, outW |-> Num(DefaultCanvas),
         outH |-> Num(DefaultCanvas), sizing |-> << >>]
    ELSE IF o.layout = "custom" /\ o.customGrid.given THEN
        [rows |-> o.customGrid.rows, cols |-> o.customGrid.cols,
         outW |-> Num(OrDefault(o.width)), outH |-> Num(OrDefault(o.height)),
         sizing |-> << >>]
    ELSE
        LET left == metas[1]
            right == CliRightMeta(metas)
            size == IF o.width > 0 /\ o.height > 0 THEN CliSplitExplicit(o)
                    ELSE IF o.width > 0 THEN CliSplitFromWidth(left, right, o)
                    ELSE IF o.height > 0 THEN CliSplitFromHeight(left, right, o)
                    ELSE CliSplitAuto(left, right, o)
        IN  [rows |-> 1, cols |-> 2, outW |-> size.outW, outH |-> size.outH,
             sizing |-> << [w |-> Num(left.width), h |-> Num(left.height)],
                           [w |-> Num(right.width), h |-> Num(right.height)] >>]

\* The slot list of the CLI merge, in push order
CliSlots(o, c) ==
    LET gap == Num(o.gap)
        hw == QDiv(QSub(c.outW, gap), Num(2))
        hh == QDiv(QSub(c.outH, gap), Num(2))
    IN  IF o.layout = "3" THEN
            << Rect(Num(0), Num(0), hw, hh),
               Rect(QAdd(hw, gap), Num(0), hw, hh),
               Rect(Num(0), QAdd(hh, gap), c.outW, hh) >>
        ELSE IF o.layout = "4" THEN
            << Rect(Num(0), Num(0), hw, hh),
               Rect(QAdd(hw, gap), Num(0), hw, hh),
               Rect(Num(0), QAdd(hh, gap), hw, hh),
               Rect(QAdd(hw, gap), QAdd(hh, gap), hw, hh) >>
        ELSE IF o.layout = "custom" \/ o.layout = "2" THEN
            LET cellW == QDiv(QSub(c.outW, QMul(Num(c.cols - 1), gap)), Num(c.cols))
                cellH == QDiv(QSub(c.outH, QMul(Num(c.rows - 1), gap)), Num(c.rows))
            IN  [k \in 1..(c.rows * c.cols) |->
                    LET r == (k - 1) \div c.cols
                        cc == (k - 1) % c.cols
                    IN  Rect(MathRound(QMul(Num(cc), QAdd(cellW, gap))),
                             MathRound(QMul(Num(r), QAdd(cellH, gap))),
                             MathRound(cellW), MathRound(cellH))]
        ELSE << >>

\* One pass of the loop body: the resize size and the composite position
CliPlace(i, meta, slot, mode) ==
    LET fit == fitInBox(Num(meta.width), Num(meta.height), slot.w, slot.h)
        stretch == mode = "stretch"
    IN  [index |-> i,
         x |-> IF stretch THEN slot.x ELSE QAdd(slot.x, fit.offsetX),
         y |-> IF stretch THEN slot.y ELSE QAdd(slot.y, fit.offsetY),
         w |-> IF stretch THEN slot.w ELSE fit.w,
         h |-> IF stretch THEN slot.h ELSE fit.h,
         slot |-> slot, srcW |-> Num(meta.width), srcH |-> Num(meta.height)]

\* sharp's parameter validation: resize() and create take positive integers,
\* composite() takes integer top/left; anything else throws
SharpPositiveInteger(v) == IsInteger(v) /\ v.n > 0

SharpResizeOk(op) == SharpPositiveInteger(op.w) /\ SharpPositiveInteger(op.h)

SharpCreateOk(c) == SharpPositiveInteger(c.outW) /\ SharpPositiveInteger(c.outH)

SharpCompositeOk(op) == IsInteger(op.x) /\ IsInteger(op.y)

MinInt(a, b) == IF a < b THEN a ELSE b

CliMergeImages(imgs, o) ==
    IF Len(imgs) = 0 THEN Failure("NoInput", FALSE)
    ELSE IF \E i \in DOMAIN imgs : ~imgs[i].present THEN Failure("NotFound", FALSE)
    ELSE
        LET c == CliCanvas(imgs, o)
            slots == CliSlots(o, c)
            n == MinInt(Len(imgs), Len(slots))
            ops == [i \in 1..n |-> CliPlace(i - 1, imgs[i], slots[i], o.mode)]
        IN  IF \E i \in 1..n : ~SharpResizeOk(ops[i]) THEN Failure("ResizeError", FALSE)
            ELSE IF ~SharpCreateOk(c) THEN Failure("CreateError", FALSE)
            ELSE IF \E i \in 1..n : ~SharpCompositeOk(ops[i])
                 THEN Failure("CompositeError", TRUE)
            ELSE [status |-> "ok", width |-> c.outW, height |-> c.outH,
                  slots |-> slots, paints |-> ops, sizing |-> c.sizing,
                  allocated |-> TRUE, written |-> TRUE]

\* The --quality option after parseInt: absent (or not a number) or an integer
NoQuality == [given |-> FALSE, value |-> 0]

Quality(v) == [given |-> TRUE, value |-> v]

DefaultQuality == 92

\* ParseQuality falling back to 100
ParseQualityBest(q) == IF q.given /\ q.value # 0 THEN q.value ELSE 100

\* `parseInt(parsed.quality) || 92`, then `quality || 92`: absent, NaN and 0
\* all give the default
ParseQuality(q) == IF q.given /\ q.value # 0 THEN q.value ELSE DefaultQuality

\* String.prototype.toLowerCase on the extensions in use
ToLowerCase(ext) ==
    CASE ext = ".JPG" -> ".jpg"
      [] ext = ".JPEG" -> ".jpeg"
      [] ext = ".WebP" -> ".webp"
      [] ext = ".PNG" -> ".png"
      [] OTHER -> ext

\* The encoder the out path's extension selects
EncodeFormat(ext) ==
    LET e == ToLowerCase(ext)
    IN  IF e = ".jpg" \/ e = ".jpeg" THEN "jpeg"
        ELSE IF e = ".webp" THEN "webp"
        ELSE "png"

\* sharp's jpeg()/webp() take an integer quality between 1 and 100
SharpQualityOk(q) == q \in 1..100

\* mergeImages of the CLI including its encode step
CliRunMerge(imgs, o, out) ==
    LET r == CliMergeImages(imgs, o)
    IN  IF r.status # "ok" THEN r
        ELSE IF EncodeFormat(out.ext) # "png" /\ ~SharpQualityOk(ParseQuality(out.quality))
             THEN Failure("EncodeError", TRUE)
        ELSE r

Step(name, i) == [step |-> name, index |-> i]

\* CliLoadSteps stopping at the first missing path
RECURSIVE CliLoadStepsLazy(_, _)
CliLoadStepsLazy(imgs, i) ==
    IF i > Len(imgs) THEN << >>
    ELSE IF ~imgs[i].present THEN << >>
    ELSE <<Step("exists", i - 1), Step("metadata", i - 1)>>
         \o CliLoadStepsLazy(imgs, i + 1)

\* images.map(async p => ...): every callback runs up to its first await when
\* map calls it, so each path is checked in order and a metadata read is
\* started for each path that exists
RECURSIVE CliLoadSteps(_, _)
CliLoadSteps(imgs, i) ==
    IF i > Len(imgs) THEN << >>
    ELSE <<Step("exists", i - 1)>>
         \o (IF imgs[i].present THEN <<Step("metadata", i - 1)>> ELSE << >>)
         \o CliLoadSteps(imgs, i + 1)

\* The resize and composite operations of the loop, one for each image that
\* has a slot
CliOps(imgs, o, slots) ==
    [i \in 1..MinInt(Len(imgs), Len(slots)) |->
        CliPlace(i - 1, imgs[i], slots[i], o.mode)]

\* The number of images the loop decodes: all of ops, or up to and including
\* the first one whose resize throws
CliDecoded(ops) ==
    IF \A i \in DOMAIN ops : SharpResizeOk(ops[i]) THEN Len(ops)
    ELSE CHOOSE i \in DOMAIN ops :
            /\ ~SharpResizeOk(ops[i])
            /\ \A j \in 1..(i - 1) : SharpResizeOk(ops[j])

\* The steps after the load, for a merge that ended with `status` having
\* decoded `decoded` images
CliWorkSteps(decoded, status) ==
    <<Step("geometry", 0)>>
    \o [i \in 1..decoded |-> Step("decode", i - 1)]
    \o (IF status = "ResizeError" THEN << >> ELSE <<Step("create", 0)>>)
    \o (IF status \in {"CompositeError", "EncodeError", "ok"}
        THEN <<Step("composite", 0)>> ELSE << >>)
    \o (IF status \in {"EncodeError", "ok"} THEN <<Step("encode", 0)>> ELSE << >>)

\* The steps of one CLI merge that ended with `status`, in order, up to the
\* one that throws
CliSteps(imgs, o, status) ==
    IF status = "NoInput" THEN << >>
    ELSE IF status = "NotFound" THEN CliLoadSteps(imgs, 1)
    ELSE CliLoadSteps(imgs, 1)
         \o CliWorkSteps(CliDecoded(CliOps(imgs, o, CliSlots(o, CliCanvas(imgs, o)))),
                         status)

NoRun == [steps |-> << >>, format |-> "none", usesQuality |-> FALSE, quality |-> 0]

\* The format and quality of the file a merge wrote
CliEncoded(fmt, quality, ok) ==
    [format |-> IF ok THEN fmt ELSE "none",
     usesQuality |-> ok /\ fmt # "png",
     quality |-> IF ok /\ fmt # "png" THEN quality ELSE 0]

\* What one CLI merge that returned r did: its steps, and the format and
\* quality of the file it wrote
CliRun(imgs, o, out, r) ==
    [steps |-> CliSteps(imgs, o, r.status)]
    @@ CliEncoded(EncodeFormat(out.ext), ParseQuality(out.quality), r.status = "ok")

DefaultOutput == [ext |-> ".png", quality |-> NoQuality]

---------------------------------------------------------------------------
(* CLI: strings. A string is a sequence of one-character strings.          *)

HexLower == <<"0", "1", "2", "3", "4", "5", "6", "7", "8", "9",
              "a", "b", "c", "d", "e", "f">>

HexUpper == <<"0", "1", "2", "3", "4", "5", "6", "7", "8", "9",
              "A", "B", "C", "D", "E", "F">>

IsHexDigit(c) == \E i \in 1..16 : HexLower[i] = c \/ HexUpper[i] = c

HexValue(c) == (CHOOSE i \in 1..16 : HexLower[i] = c \/ HexUpper[i] = c) - 1

\* The value of the longest prefix of hex digits of s from position i on
RECURSIVE HexPrefixValue(_, _, _)
HexPrefixValue(s, i, acc) ==
    IF i > Len(s) \/ ~IsHexDigit(s[i]) THEN acc
    ELSE HexPrefixValue(s, i + 1, acc * 16 + HexValue(s[i]))

\* parseInt(s, 16) on strings without sign, blank or 0x prefix: the longest
\* prefix of hex digits, NaN when there is none
ParseInt16(s) ==
    IF Len(s) = 0 \/ ~IsHexDigit(s[1]) THEN NaN ELSE Num(HexPrefixValue(s, 1, 0))

\* String.prototype.slice(from, to) for 0 <= from <= to
Slice(s, from, to) ==
    IF from >= Len(s) THEN << >> ELSE SubSeq(s, from + 1, MinInt(to, Len(s)))

\* String.prototype.replace(c, ''): the first occurrence of c goes
ReplaceFirst(s, c) ==
    IF \A i \in DOMAIN s : s[i] # c THEN s
    ELSE LET k == CHOOSE i \in DOMAIN s : s[i] = c /\ \A j \in 1..(i - 1) : s[j] # c
         IN  SubSeq(s, 1, k - 1) \o SubSeq(s, k + 1, Len(s))

\* parseBgColor leaving a 3-digit value as it is
ExpandShortAsIs(hex) == hex

\* if (hex.length === 3) hex = hex.split('').map(c => c + c).join('')
ExpandShort(hex) ==
    IF Len(hex) = 3 THEN <<hex[1], hex[1], hex[2], hex[2], hex[3], hex[3]>>
    ELSE hex

\* The three channels read from the expanded string
HexChannels(hex) ==
    [r |-> ParseInt16(Slice(hex, 0, 2)),
     g |-> ParseInt16(Slice(hex, 2, 4)),
     b |-> ParseInt16(Slice(hex, 4, 6)),
     alpha |-> 1]

parseBgColor(hex) == HexChannels(ExpandShort(ReplaceFirst(hex, "#")))

\* key.startsWith('--')
StartsWithDashes(t) == Len(t) >= 2 /\ t[1] = "-" /\ t[2] = "-"

\* `next && !next.startsWith('--')`: argv[i + 1] exists, is not the empty
\* string, and is not a flag
TakesValue(argv, i) ==
    /\ i + 1 <= Len(argv)
    /\ Len(argv[i + 1]) > 0
    /\ ~StartsWithDashes(argv[i + 1])

\* args[name] = true, and args[name] = next
FlagSet(name) == [name |-> name, isTrue |-> TRUE, value |-> << >>]

FlagValue(name, value) == [name |-> name, isTrue |-> FALSE, value |-> value]

\* args[entry.name] = ...: a later assignment replaces an earlier one
Assign(args, entry) == {e \in args : e.name # entry.name} \cup {entry}

\* parseArgs from position i on; argv is process.argv from index 2 on
RECURSIVE ParseArgsFrom(_, _, _)
ParseArgsFrom(argv, i, args) ==
    IF i > Len(argv) THEN args
    ELSE IF ~StartsWithDashes(argv[i]) THEN ParseArgsFrom(argv, i + 1, args)
    ELSE IF TakesValue(argv, i)
    THEN ParseArgsFrom(argv, i + 2,
                       Assign(args, FlagValue(SubSeq(argv[i], 3, Len(argv[i])),
                                              argv[i + 1])))
    ELSE ParseArgsFrom(argv, i + 1,
                       Assign(args, FlagSet(SubSeq(argv[i], 3, Len(argv[i])))))

parseArgs(argv) == ParseArgsFrom(argv, 1, {})

\* main: the realImages loop from position i on
RECURSIVE RealImagesFrom(_, _)
RealImagesFrom(argv, i) ==
    IF i > Len(argv) THEN << >>
    ELSE IF StartsWithDashes(argv[i])
    THEN RealImagesFrom(argv, IF TakesValue(argv, i) THEN i + 2 ELSE i + 1)
    ELSE <<argv[i]>> \o RealImagesFrom(argv, i + 1)

realImages(argv) == RealImagesFrom(argv, 1)

---------------------------------------------------------------------------
(* Renderer: core/imageProcessor.js                                        *)

\* What `canvas.width = v` leaves in canvas.width: v converted to an unsigned
\* long (NaN and the infinities give 0, a fraction truncates towards zero, a
\* negative value wraps to 2^32 + v) and, when that exceeds 2^31 - 1, the
\* attribute's default instead. Every magnitude here is below 2^31.
CanvasDimension(v, default) ==
    IF v.d = 0 THEN 0
    ELSE LET t == IF v.n >= 0 THEN v.n \div v.d ELSE -((-v.n) \div v.d)
         IN  IF t >= 0 THEN t ELSE default

CanvasDefaultWidth == 300

CanvasDefaultHeight == 150

\* Effective source size, target size and position of one image in its slot.
\* `threw`: drawImage(transformCanvas, ...) raises InvalidStateError when the
\* transform canvas has a zero dimension.
drawSmart(i, img, x, y, w, h, mode, transform) ==
    LET natW == Num(img.width)
        natH == Num(img.height)
        crop == transform.crop
        cropW == IF crop.present THEN MathFloor(QMul(crop.width, natW)) ELSE natW
        cropH == IF crop.present THEN MathFloor(QMul(crop.height, natH)) ELSE natH
        isRotated90 == (transform.rotate % 180) # 0
        srcW == IF isRotated90 THEN cropH ELSE cropW
        srcH == IF isRotated90 THEN cropW ELSE cropH
        fit == fitInBox(srcW, srcH, w, h)
        drawW == IF mode = "stretch" THEN w ELSE fit.w
        drawH == IF mode = "stretch" THEN h ELSE fit.h
        drawX == IF mode = "stretch" THEN Num(0) ELSE fit.offsetX
        drawY == IF mode = "stretch" THEN Num(0) ELSE fit.offsetY
    IN  [index |-> i, x |-> QAdd(x, drawX), y |-> QAdd(y, drawY),
         w |-> drawW, h |-> drawH, slot |-> Rect(x, y, w, h),
         srcW |-> srcW, srcH |-> srcH,
         threw |-> \/ CanvasDimension(drawW, CanvasDefaultWidth) = 0
                   \/ CanvasDimension(drawH, CanvasDefaultHeight) = 0]

\* PaintSlots reading the image one past the slot's own
PaintSlotsShifted(imgs, slots, mode, transforms) ==
    LET present == {k \in DOMAIN slots : ImgAt(imgs, k).present}
    IN  [k \in present |->
            drawSmart(k - 1, ImgAt(imgs, k), slots[k].x, slots[k].y,
                      slots[k].w, slots[k].h, mode, TransformAt(transforms, k - 1))]

\* The paints of a layout: one drawSmart per slot that holds an image, in slot
\* order; the first one that throws ends the merge
PaintSlots(imgs, slots, mode, transforms) ==
    LET present == {k \in DOMAIN slots : ImgAt(imgs, k - 1).present}
    IN  [k \in present |->
            drawSmart(k - 1, ImgAt(imgs, k - 1), slots[k].x, slots[k].y,
                      slots[k].w, slots[k].h, mode, TransformAt(transforms, k - 1))]

RECURSIVE SortedSeq(_)
SortedSeq(S) ==
    IF S = {} THEN << >>
    ELSE LET m == CHOOSE a \in S : \A b \in S : a <= b
         IN  <<m>> \o SortedSeq(S \ {m})

\* The result of a layout once its canvas exists
Painted(outW, outH, slots, sizing, paintOf) ==
    IF \E k \in DOMAIN paintOf : paintOf[k].threw
    THEN Failure("PaintError", TRUE)
    ELSE LET order == SortedSeq(DOMAIN paintOf)
         IN  [status |-> "ok", width |-> outW, height |-> outH, slots |-> slots,
              paints |-> [j \in DOMAIN order |->
                            LET p == paintOf[order[j]]
                            IN  [index |-> p.index, x |-> p.x, y |-> p.y,
                                 w |-> p.w, h |-> p.h, slot |-> p.slot,
                                 srcW |-> p.srcW, srcH |-> p.srcH]],
              sizing |-> sizing, allocated |-> TRUE, written |-> FALSE]

drawLayout3(imgs, mode, spacing, transforms) ==
    LET outW == Num(DefaultCanvas)
        outH == Num(DefaultCanvas)
        halfW == QDiv(QSub(outW, Num(spacing)), Num(2))
        halfH == QDiv(QSub(outH, Num(spacing)), Num(2))
        slots == << Rect(Num(0), Num(0), halfW, halfH),
                    Rect(QAdd(halfW, Num(spacing)), Num(0), halfW, halfH),
                    Rect(Num(0), QAdd(halfH, Num(spacing)), outW, halfH) >>
    IN  Painted(outW, outH, slots, << >>, PaintSlots(imgs, slots, mode, transforms))

drawLayout4(imgs, mode, spacing, transforms) ==
    LET outW == Num(DefaultCanvas)
        outH == Num(DefaultCanvas)
        halfW == QDiv(QSub(outW, Num(spacing)), Num(2))
        halfH == QDiv(QSub(outH, Num(spacing)), Num(2))
        slots == << Rect(Num(0), Num(0), halfW, halfH),
                    Rect(QAdd(halfW, Num(spacing)), Num(0), halfW, halfH),
                    Rect(Num(0), QAdd(halfH, Num(spacing)), halfW, halfH),
                    Rect(QAdd(halfW, Num(spacing)), QAdd(halfH, Num(spacing)),
                         halfW, halfH) >>
    IN  Painted(outW, outH, slots, << >>, PaintSlots(imgs, slots, mode, transforms))

DefaultRows == 2

DefaultCols == 3

drawLayoutCustom(imgs, o) ==
    LET rows == IF o.customGrid.given THEN o.customGrid.rows ELSE DefaultRows
        cols == IF o.customGrid.given THEN o.customGrid.cols ELSE DefaultCols
        spacing == Num(o.gap)
        outW == Num(DefaultCanvas)
        outH == Num(DefaultCanvas)
        totalGapW == QMul(Num(cols - 1), spacing)
        totalGapH == QMul(Num(rows - 1), spacing)
        cellW == QDiv(QSub(outW, totalGapW), Num(cols))
        cellH == QDiv(QSub(outH, totalGapH), Num(rows))
        slots == [k \in 1..(rows * cols) |->
                    LET r == (k - 1) \div cols
                        c == (k - 1) % cols
                    IN  Rect(QMul(Num(c), QAdd(cellW, spacing)),
                             QMul(Num(r), QAdd(cellH, spacing)), cellW, cellH)]
    IN  Painted(outW, outH, slots, << >>, PaintSlots(imgs, slots, o.mode, o.transforms))

\* Natural size of an image with width/height swapped for a quarter turn
getDim(img, transform) ==
    IF transform.rotate # 0 /\ (transform.rotate % 180) # 0
    THEN [w |-> Num(img.height), h |-> Num(img.width)]
    ELSE [w |-> Num(img.width), h |-> Num(img.height)]

\* Layout2Explicit with width and height exchanged
Layout2ExplicitSwapped(o) == [outW |-> Num(o.height), outH |-> Num(o.width)]

\* Split, width and height both given
Layout2Explicit(o) == [outW |-> Num(o.width), outH |-> Num(o.height)]

\* Split, only width given
Layout2FromWidth(left, right, o) ==
    LET targetHalfW == QDiv(QSub(Num(o.width), Num(o.gap)), Num(2))
        leftScale == QDiv(targetHalfW, left.w)
        rightScale == QDiv(targetHalfW, right.w)
    IN  [outW |-> Num(o.width),
         outH |-> MathRound(MathMax(QMul(left.h, leftScale),
                                    QMul(right.h, rightScale)))]

\* Layout2FromHeight rounding each side before summing
Layout2FromHeightPerSide(left, right, o) ==
    LET leftScale == QDiv(Num(o.height), left.h)
        rightScale == QDiv(Num(o.height), right.h)
    IN  [outW |-> QAdd(QAdd(MathRound(QMul(left.w, leftScale)),
                            MathRound(QMul(right.w, rightScale))), Num(o.gap)),
         outH |-> Num(o.height)]

\* Split, only height given
Layout2FromHeight(left, right, o) ==
    LET leftScale == QDiv(Num(o.height), left.h)
        rightScale == QDiv(Num(o.height), right.h)
    IN  [outW |-> MathRound(QAdd(QAdd(QMul(left.w, leftScale),
                                      QMul(right.w, rightScale)), Num(o.gap))),
         outH |-> Num(o.height)]

\* Split, neither given
Layout2Auto(left, right, o) ==
    LET targetH == MathMax(left.h, right.h)
        leftScale == QDiv(targetH, left.h)
        rightScale == QDiv(targetH, right.h)
    IN  [outW |-> QAdd(QAdd(MathRound(QMul(left.w, leftScale)),
                            MathRound(QMul(right.w, rightScale))), Num(o.gap)),
         outH |-> targetH]

drawLayout2(imgs, o) ==
    LET leftImg == ImgAt(imgs, 0)
        rightImg == ImgAt(imgs, 1)
    IN  IF ~leftImg.present \/ ~rightImg.present
        THEN Failure("InsufficientImages", FALSE)
        ELSE
            LET left == getDim(leftImg, TransformAt(o.transforms, 0))
                right == getDim(rightImg, TransformAt(o.transforms, 1))
                c == IF o.width > 0 /\ o.height > 0 THEN Layout2Explicit(o)
                     ELSE IF o.width > 0 THEN Layout2FromWidth(left, right, o)
                     ELSE IF o.height > 0 THEN Layout2FromHeight(left, right, o)
                     ELSE Layout2Auto(left, right, o)
                spacing == Num(o.gap)
                halfW == MathRound(QDiv(QSub(c.outW, spacing), Num(2)))
                slots == << Rect(Num(0), Num(0), halfW, c.outH),
                            Rect(QAdd(halfW, spacing), Num(0),
                                 QSub(QSub(c.outW, halfW), spacing), c.outH) >>
            IN  Painted(c.outW, c.outH, slots, <<left, right>>,
                        PaintSlots(imgs, slots, o.mode, o.transforms))

\* drawLayout3 and drawLayout4 are called without `spacing`, so its default
\* applies whatever gap the options carry
DefaultSpacing == 0

UiMergeImages(imgs, o) ==
    IF o.layout = "3" THEN drawLayout3(imgs, o.mode, DefaultSpacing, o.transforms)
    ELSE IF o.layout = "4" THEN drawLayout4(imgs, o.mode, DefaultSpacing, o.transforms)
    ELSE IF o.layout = "custom" THEN drawLayoutCustom(imgs, o)
    ELSE drawLayout2(imgs, o)

---------------------------------------------------------------------------
(* Bounds and input sets                                                   *)

MaxImages == 4

MaxFitDim == 4

SeqsUpTo(S, n) == UNION {[1..k -> S] : k \in 0..n}

SourceChoices == {NoImg, Img(1, 2), Img(3, 2)}

WidthChoices == {0, 5}

HeightChoices == {0, 3}

GapChoices == {0, 1, 20}

ModeChoices == {"fit", "stretch"}

Grid(rows, cols) == [given |-> TRUE, rows |-> rows, cols |-> cols]

NoGrid == [given |-> FALSE, rows |-> 0, cols |-> 0]

LayoutChoices ==
    {[layout |-> l, customGrid |-> Grid(DefaultRows, DefaultCols)] : l \in {"2", "3", "4"}}
    \cup {[layout |-> "custom", customGrid |-> g] :
            g \in {NoGrid, Grid(1, 3), Grid(DefaultRows, DefaultCols)}}

OptionChoices ==
    {[layout |-> lc.layout, customGrid |-> lc.customGrid, width |-> w,
      height |-> h, gap |-> g, mode |-> m, transforms |-> << >>] :
        lc \in LayoutChoices, w \in WidthChoices, h \in HeightChoices,
        g \in GapChoices, m \in ModeChoices}

NoFit == [w |-> NaN, h |-> NaN, offsetX |-> NaN, offsetY |-> NaN]

FitArgs(srcW, srcH, targetW, targetH) ==
    [srcW |-> srcW, srcH |-> srcH, targetW |-> targetW, targetH |-> targetH]

FitChoices ==
    {FitArgs(a, b, c, d) : a \in 1..MaxFitDim, b \in 1..MaxFitDim,
                           c \in 1..MaxFitDim, d \in 1..MaxFitDim}
    \cup {FitArgs(1000, 1000, 500, 500), FitArgs(1000, 500, 500, 500),
          FitArgs(500, 500, 1000, 1000)}

IdleOptions ==
    [layout |-> "2", customGrid |-> Grid(DefaultRows, DefaultCols), width |-> 0,
     height |-> 0, gap |-> 0, mode |-> "fit", transforms |-> << >>]

---------------------------------------------------------------------------
(* States of the parts a merge request leaves alone                        *)

\* state.crop.rect as the application starts
DefaultCropRect ==
    [x |-> Norm(1, 10), y |-> Norm(1, 10), w |-> Norm(4, 5), h |-> Norm(4, 5)]

\* Image 0 freshly loaded (DEFAULT_TRANSFORM, no crop), crop editor closed.
\* `aliased`: state.crop.rect is the very object stored as transform.crop.
\* `log` records the rotate value and effective size after each preview.
IdleEditor ==
    [rotate |-> 0, crop |-> NoCrop, rect |-> DefaultCropRect, active |-> FALSE,
     aliased |-> FALSE, dragging |-> FALSE, resizing |-> FALSE, handle |-> "",
     moves |-> 0, turns |-> << >>, log |-> << >>]

IdleGrouping ==
    [files |-> << >>, groupSize |-> 2, smart |-> FALSE, groups |-> << >>,
     dropped |-> FALSE]

IdleBatch ==
    [pairs |-> << >>, i |-> 0, success |-> 0, failed |-> 0, status |-> "idle",
     attempted |-> << >>, outcomes |-> << >>, outputs |-> {},
     reported |-> FALSE, exitCode |-> 0]

\* A slot of state.images: null, or a loaded image and its transform
NullSlot == [id |-> 0, flipH |-> FALSE]

\* What a merge reads when it starts: validImages and the options
Snapshot(layout, grid, imgs, spacing) ==
    [layout |-> layout, grid |-> grid, images |-> imgs, spacing |-> spacing]

\* state.mergedCanvas = null
NoCanvas == [present |-> FALSE, from |-> Snapshot("", Grid(0, 0), << >>, 0)]

\* The app after its script has run: layout '2', customGrid 2x3, two empty
\* slots, no preview, save and copy buttons disabled, nothing pending.
\* `flights`: the merges updatePreview started that have not settled yet;
\* `loads`: the loadImage calls that have not settled yet; `emptied`: Reset
\* All or the clearing of the last image happened and no image was set since
IdleApp ==
    [layout |-> "2", grid |-> Grid(DefaultRows, DefaultCols), spacing |-> 0,
     images |-> <<NullSlot, NullSlot>>, mergedCanvas |-> NoCanvas,
     buttons |-> FALSE, isProcessing |-> FALSE, flights |-> << >>,
     loads |-> {}, emptied |-> FALSE, events |-> 0]

\* batchState after the script has run, and no runBatchMerge under way.
\* `total`, `i`, `awaiting`: the run's captured length, its loop index, and
\* whether it waits for the current group; `current`: the group the loop
\* read; `attempted`: the groups the loop read so far; `merged`: each
\* mergeImages call of the run, its files and the layout it used;
\* `progress`: the widths given to the progress bar; `queued`:
\* batchState.groups when the run started; `report`: the toast that ended the
\* run; `fault`: the step that threw; `rejected`: a runBatchMerge call
\* returned at once during the run; `changed`: the queue was edited during
\* the run; `drops`, `runs`: the number of batch drops and of runs so far
IdleQueue ==
    [groups |-> << >>, isProcessing |-> FALSE, results |-> << >>,
     total |-> 0, i |-> 0, awaiting |-> FALSE, current |-> << >>,
     attempted |-> << >>, merged |-> << >>, progress |-> << >>,
     queued |-> << >>, report |-> "none", fault |-> "none",
     rejected |-> FALSE, changed |-> FALSE, drops |-> 0, runs |-> 0]

\* No command line or colour string has been parsed
NoParse == [input |-> << >>, done |-> FALSE]

---------------------------------------------------------------------------
(* State machine: merges of one request by both implementations            *)

Init ==
    /\ images \in SeqsUpTo(SourceChoices, MaxImages)
    /\ options \in OptionChoices
    /\ cliResult = NoResult
    /\ uiResult = NoResult
    /\ fitArgs = FitArgs(1, 1, 1, 1)
    /\ fitResult = NoFit
    /\ output = DefaultOutput
    /\ cliRun = NoRun
    /\ editor = IdleEditor
    /\ grouping = IdleGrouping
    /\ batch = IdleBatch
    /\ parsed = NoParse
    /\ app = IdleApp
    /\ queue = IdleQueue

CliMerge ==
    /\ cliResult' = CliRunMerge(images, options, output)
    /\ cliRun' = CliRun(images, options, output, cliResult')
    /\ UNCHANGED <<fitArgs, fitResult, images, options, uiResult, output,
                   editor, grouping, batch, parsed, app, queue>>

UiMerge ==
    /\ uiResult' = UiMergeImages(images, options)
    /\ UNCHANGED <<fitArgs, fitResult, images, options, cliResult, output,
                   cliRun, editor, grouping, batch, parsed, app, queue>>

Next == CliMerge \/ UiMerge

Spec == Init /\ [][Next]_vars

(* State machine: calls of the fit calculator                              *)

InitFit ==
    /\ fitArgs \in FitChoices
    /\ fitResult = NoFit
    /\ output = DefaultOutput
    /\ cliRun = NoRun
    /\ editor = IdleEditor
    /\ grouping = IdleGrouping
    /\ batch = IdleBatch
    /\ parsed = NoParse
    /\ app = IdleApp
    /\ queue = IdleQueue
    /\ images = << >>
    /\ options = IdleOptions
    /\ cliResult = NoResult
    /\ uiResult = NoResult

FitInBoxCall ==
    /\ fitResult' = fitInBox(Num(fitArgs.srcW), Num(fitArgs.srcH),
                             Num(fitArgs.targetW), Num(fitArgs.targetH))
    /\ UNCHANGED <<fitArgs, images, options, cliResult, uiResult, output,
                   cliRun, editor, grouping, batch, parsed, app, queue>>

NextFit == FitInBoxCall

SpecFit == InitFit /\ [][NextFit]_vars

(* State machine: interactive Split merges of transformed images          *)

\* A crop as drawSmart reads it: {x, y, width, height}
ProcessorCrop(x, y, width, height) ==
    [present |-> TRUE, x |-> x, y |-> y, w |-> NaN, h |-> NaN,
     width |-> width, height |-> height]

\* A crop as the crop editor stores it: {x, y, w, h}; its width and height
\* are undefined, which arithmetic turns into NaN
EditorCrop(x, y, w, h) ==
    [present |-> TRUE, x |-> x, y |-> y, w |-> w, h |-> h,
     width |-> NaN, height |-> NaN]

CropChoices ==
    {NoCrop,
     ProcessorCrop(Num(0), Num(0), Norm(1, 2), Norm(1, 2)),
     EditorCrop(Norm(1, 10), Norm(1, 10), Norm(4, 5), Norm(4, 5))}

RotateChoices == {0, 90, 180, 270}

TransformChoices ==
    {[rotate |-> r, crop |-> c] : r \in RotateChoices, c \in CropChoices}

TransformedSources == {Img(4, 2), Img(2, 6)}

InitTransform ==
    /\ images \in [1..2 -> TransformedSources]
    /\ \E w \in WidthChoices, h \in HeightChoices, m \in ModeChoices,
          t \in [1..2 -> TransformChoices] :
          options = [layout |-> "2", customGrid |-> Grid(DefaultRows, DefaultCols),
                     width |-> w, height |-> h, gap |-> 0, mode |-> m,
                     transforms |-> t]
    /\ cliResult = NoResult
    /\ uiResult = NoResult
    /\ fitArgs = FitArgs(1, 1, 1, 1)
    /\ fitResult = NoFit
    /\ output = DefaultOutput
    /\ cliRun = NoRun
    /\ editor = IdleEditor
    /\ grouping = IdleGrouping
    /\ batch = IdleBatch
    /\ parsed = NoParse
    /\ app = IdleApp
    /\ queue = IdleQueue

NextTransform == UiMerge

SpecTransform == InitTransform /\ [][NextTransform]_vars

---------------------------------------------------------------------------
(* Interactive editor: rotation buttons and the crop editor (ui/app.js)    *)

MaxTurns == 4

MaxMoves == 2

\* updatePreview: merge the loaded images with image 0's current transform
Preview(e) ==
    UiMergeImages(images,
        [options EXCEPT !.transforms =
            <<[rotate |-> e.rotate, crop |-> e.crop]>>])

\* The rotate value and the effective source size of image 0 in a preview
LogEntry(e, r) ==
    [rotate |-> e.rotate,
     w |-> IF r.status = "ok" THEN r.paints[1].srcW ELSE NaN,
     h |-> IF r.status = "ok" THEN r.paints[1].srcH ELSE NaN]

\* applyTransform without the wrap-around
RotateByUnwrapped(rotate, value) == rotate + value

\* applyTransform(index, 'rotate', value):
\* transform.rotate = (transform.rotate + value + 360) % 360
RotateBy(rotate, value) == (rotate + value + 360) % 360

RotateValues == {90, -90}

ApplyRotate(value) ==
    /\ Len(editor.turns) < MaxTurns
    /\ LET e == [editor EXCEPT !.rotate = RotateBy(editor.rotate, value),
                               !.turns = Append(editor.turns, value)]
           r == Preview(e)
       IN  /\ editor' = [e EXCEPT !.log = Append(editor.log, LogEntry(e, r))]
           /\ uiResult' = r
    /\ UNCHANGED <<fitArgs, fitResult, images, options, cliResult, output,
                   cliRun, grouping, batch, parsed, app, queue>>

RotatedSources == {<<Img(10, 20)>>, <<Img(10, 20), Img(4, 2)>>, <<Img(3, 3), NoImg, Img(4, 2)>>}

InitRotate ==
    /\ images \in RotatedSources
    /\ \E l \in {"3", "4"}, m \in ModeChoices, g \in GapChoices,
          w \in WidthChoices :
          options = [IdleOptions EXCEPT !.layout = l, !.mode = m, !.gap = g,
                                        !.width = w]
    /\ uiResult = Preview(IdleEditor)
    /\ editor = [IdleEditor EXCEPT !.log = <<LogEntry(IdleEditor, Preview(IdleEditor))>>]
    /\ cliResult = NoResult
    /\ fitArgs = FitArgs(1, 1, 1, 1)
    /\ fitResult = NoFit
    /\ output = DefaultOutput
    /\ cliRun = NoRun
    /\ grouping = IdleGrouping
    /\ batch = IdleBatch
    /\ parsed = NoParse
    /\ app = IdleApp
    /\ queue = IdleQueue

NextRotate == \E v \in RotateValues : ApplyRotate(v)

SpecRotate == InitRotate /\ [][NextRotate]_vars

(* Crop editor                                                            *)

HandleChoices == {"e", "w", "nw", "se"}

\* state.crop.handle.includes(letter)
HandleIncludes(handle, letter) ==
    CASE letter = "n" -> handle \in {"n", "nw", "ne"}
      [] letter = "s" -> handle \in {"s", "sw", "se"}
      [] letter = "e" -> handle \in {"e", "ne", "se"}
      [] letter = "w" -> handle \in {"w", "nw", "sw"}

MinCropSize == Norm(1, 10)

AsRect(crop) == [x |-> crop.x, y |-> crop.y, w |-> crop.w, h |-> crop.h]

AsCrop(r) == EditorCrop(r.x, r.y, r.w, r.h)

\* The mousemove handler's drag branch
DragRect(r, dx, dy) ==
    [r EXCEPT !.x = MathMax(Num(0), MathMin(QSub(Num(1), r.w), QAdd(r.x, dx))),
              !.y = MathMax(Num(0), MathMin(QSub(Num(1), r.h), QAdd(r.y, dy)))]

\* The mousemove handler's resize branch: the e, s, w and n parts in turn
ResizeRect(r, handle, dx, dy) ==
    LET r1 == IF HandleIncludes(handle, "e")
              THEN [r EXCEPT !.w = MathMax(MinCropSize,
                                     MathMin(QSub(Num(1), r.x), QAdd(r.w, dx)))]
              ELSE r
        r2 == IF HandleIncludes(handle, "s")
              THEN [r1 EXCEPT !.h = MathMax(MinCropSize,
                                      MathMin(QSub(Num(1), r1.y), QAdd(r1.h, dy)))]
              ELSE r1
        newW == MathMax(MinCropSize, QSub(r2.w, dx))
        r3 == IF HandleIncludes(handle, "w")
              THEN [r2 EXCEPT !.x = QAdd(r2.x, QSub(r2.w, newW)), !.w = newW]
              ELSE r2
        newH == MathMax(MinCropSize, QSub(r3.h, dy))
    IN  IF HandleIncludes(handle, "n")
        THEN [r3 EXCEPT !.y = QAdd(r3.y, QSub(r3.h, newH)), !.h = newH]
        ELSE r3

editorFrame ==
    <<fitArgs, fitResult, images, options, cliResult, output, cliRun, grouping,
      batch, parsed, app, queue>>

\* openCropModal(0): the editor's rect IS the stored crop object when there
\* is one, a fresh default rect otherwise
OpenCropModal ==
    /\ ~editor.active
    /\ editor' = [editor EXCEPT
                    !.active = TRUE,
                    !.rect = IF editor.crop.present THEN AsRect(editor.crop)
                             ELSE DefaultCropRect,
                    !.aliased = editor.crop.present]
    /\ UNCHANGED uiResult
    /\ UNCHANGED editorFrame

\* cropSelector.onmousedown on a handle or on the selector's body
CropMouseDown(target) ==
    /\ editor.active
    /\ editor' = IF target \in HandleChoices
                 THEN [editor EXCEPT !.resizing = TRUE, !.handle = target]
                 ELSE [editor EXCEPT !.dragging = TRUE]
    /\ UNCHANGED uiResult
    /\ UNCHANGED editorFrame

\* window mousemove: mutates the rect object in place, and with it the stored
\* crop when the two are the same object
CropMouseMove(dx, dy) ==
    /\ editor.active
    /\ editor.dragging \/ editor.resizing
    /\ editor.moves < MaxMoves
    /\ LET r == IF editor.dragging THEN DragRect(editor.rect, dx, dy)
                ELSE ResizeRect(editor.rect, editor.handle, dx, dy)
       IN  editor' = [editor EXCEPT
                        !.rect = r,
                        !.crop = IF editor.aliased THEN AsCrop(r) ELSE @,
                        !.moves = @ + 1]
    /\ UNCHANGED uiResult
    /\ UNCHANGED editorFrame

\* window mouseup
CropMouseUp ==
    /\ editor.dragging \/ editor.resizing
    /\ editor' = [editor EXCEPT !.dragging = FALSE, !.resizing = FALSE]
    /\ UNCHANGED uiResult
    /\ UNCHANGED editorFrame

\* btnCropSave.onclick: store a copy of the rect, refresh the preview, close
CropSave ==
    /\ editor.active
    /\ LET e == [editor EXCEPT !.crop = AsCrop(editor.rect), !.aliased = FALSE,
                               !.active = FALSE]
       IN  /\ editor' = e
           /\ uiResult' = Preview(e)
    /\ UNCHANGED editorFrame

\* btnCropCancel.onclick
CropCancel ==
    /\ editor.active
    /\ editor' = [editor EXCEPT !.active = FALSE]
    /\ UNCHANGED uiResult
    /\ UNCHANGED editorFrame

DeltaChoices == {Norm(-1, 2), Norm(1, 5)}

CropSources == {<<Img(10, 20)>>, <<Img(10, 20), Img(4, 2)>>}

InitCrop ==
    /\ images \in CropSources
    /\ \E m \in ModeChoices :
          options = [IdleOptions EXCEPT !.layout = "4", !.mode = m]
    /\ uiResult = Preview(IdleEditor)
    /\ editor = IdleEditor
    /\ cliResult = NoResult
    /\ fitArgs = FitArgs(1, 1, 1, 1)
    /\ fitResult = NoFit
    /\ output = DefaultOutput
    /\ cliRun = NoRun
    /\ grouping = IdleGrouping
    /\ batch = IdleBatch
    /\ parsed = NoParse
    /\ app = IdleApp
    /\ queue = IdleQueue

NextCrop ==
    \/ OpenCropModal
    \/ \E t \in HandleChoices \cup {"body"} : CropMouseDown(t)
    \/ \E dx \in DeltaChoices, dy \in DeltaChoices : CropMouseMove(dx, dy)
    \/ CropMouseUp
    \/ CropSave
    \/ CropCancel

SpecCrop == InitCrop /\ [][NextCrop]_vars

---------------------------------------------------------------------------
(* Batch grouping of dropped files (ui/app.js)                             *)
(* A file is its name, a sequence of one-character strings.                *)

MaxFiles == 4

\* Primary collation order of the characters in use, as localeCompare
\* orders them: space, '_', '-', '.', then letters
LocaleRank(c) ==
    CASE c = " " -> 1
      [] c = "_" -> 2
      [] c = "-" -> 3
      [] c = "." -> 4
      [] c = "a" -> 5
      [] c = "b" -> 6
      [] c = "c" -> 7

\* a.localeCompare(b) < 0
RECURSIVE LocaleLess(_, _)
LocaleLess(a, b) ==
    IF b = << >> THEN FALSE
    ELSE IF a = << >> THEN TRUE
    ELSE IF Head(a) = Head(b) THEN LocaleLess(Tail(a), Tail(b))
    ELSE LocaleRank(Head(a)) < LocaleRank(Head(b))

\* Insert a name into a sorted list after the names not greater than it
RECURSIVE InsertByName(_, _)
InsertByName(name, sorted) ==
    IF sorted = << >> THEN <<name>>
    ELSE IF LocaleLess(name, Head(sorted)) THEN <<name>> \o sorted
    ELSE <<Head(sorted)>> \o InsertByName(name, Tail(sorted))

\* [...files].sort((a, b) => a.name.localeCompare(b.name))
RECURSIVE SortByName(_)
SortByName(files) ==
    IF files = << >> THEN << >>
    ELSE InsertByName(files[Len(files)], SortByName(SubSeq(files, 1, Len(files) - 1)))

\* name.lastIndexOf(c): 0-based, -1 when c does not occur
LastIndexOf(name, c) ==
    LET at == {i \in DOMAIN name : name[i] = c}
    IN  IF at = {} THEN -1 ELSE (CHOOSE i \in at : \A j \in at : j <= i) - 1

\* name.replace(/\.[^/.]+$/, ""): drop the last '.' and what follows it,
\* unless nothing follows it
StripExt(name) ==
    LET dot == LastIndexOf(name, ".")
    IN  IF dot >= 0 /\ dot + 1 < Len(name) /\ \A i \in (dot + 2)..Len(name) : name[i] # "/"
        THEN SubSeq(name, 1, dot)
        ELSE name

MaxIndex(a, b) == IF a < b THEN b ELSE a

\* The grouping key groupFilesSmartly computes for a file
SmartKey(file) ==
    LET name == StripExt(file)
        lastIdx == MaxIndex(MaxIndex(LastIndexOf(name, "_"), LastIndexOf(name, " ")),
                            LastIndexOf(name, "-"))
    IN  IF lastIdx > 0 THEN SubSeq(name, 1, lastIdx) ELSE name

\* The slices of exactly n files: slice(i, i + n) for i = 0, n, 2n, ...,
\* kept when its length is n
Chunks(files, n) ==
    [k \in 1..(Len(files) \div n) |-> SubSeq(files, (k - 1) * n + 1, k * n)]

\* The map's keys in insertion order: first occurrence in the sorted list
RECURSIVE KeyOrder(_)
KeyOrder(sorted) ==
    IF sorted = << >> THEN << >>
    ELSE LET rest == KeyOrder(SubSeq(sorted, 1, Len(sorted) - 1))
             key == SmartKey(sorted[Len(sorted)])
         IN  IF \E i \in DOMAIN rest : rest[i] = key THEN rest ELSE Append(rest, key)

RECURSIVE Concat(_)
Concat(seqs) == IF seqs = << >> THEN << >> ELSE Head(seqs) \o Concat(Tail(seqs))

groupFilesSmartly(files, groupSize) ==
    LET sorted == SortByName(files)
        keys == KeyOrder(sorted)
    IN  Concat([k \in DOMAIN keys |->
                  Chunks(SelectSeq(sorted, LAMBDA f : SmartKey(f) = keys[k]), groupSize)])

\* The sequential branch of handleBatchDrop: slices of the files as dropped
SequentialGroups(files, groupSize) == Chunks(files, groupSize)

\* parseInt(state.layout) || 2, or rows * cols for the custom layout
GroupSize(o) ==
    IF o.layout = "custom" THEN o.customGrid.rows * o.customGrid.cols
    ELSE IF o.layout = "3" THEN 3
    ELSE IF o.layout = "4" THEN 4
    ELSE 2

GroupFiles(files, groupSize, smart) ==
    IF smart THEN groupFilesSmartly(files, groupSize)
    ELSE SequentialGroups(files, groupSize)

FileNames ==
    { <<"a", "_", "b", ".", "c">>,
      <<"a", "_", "c", ".", "c">>,
      <<"a", "_", "b", "_", "a", ".", "c">>,
      <<"a", "_", "b", "_", "b", ".", "c">>,
      <<"b", "-", "a", ".", "c">>,
      <<"_", "b", ".", "c">>,
      <<"_", "b", " ", "a", ".", "c">> }

\* Lists of distinct files, in any order
FileLists ==
    {f \in SeqsUpTo(FileNames, MaxFiles) : \A i, j \in DOMAIN f : i # j => f[i] # f[j]}

\* handleBatchDrop(files): every file passes validateFile; an empty drop
\* returns at once; the groups are appended to the (empty) batch queue
HandleBatchDrop(files, smart) ==
    /\ ~grouping.dropped
    /\ Len(files) > 0
    /\ grouping' = [files |-> files, groupSize |-> GroupSize(options),
                    smart |-> smart,
                    groups |-> grouping.groups
                               \o GroupFiles(files, GroupSize(options), smart),
                    dropped |-> TRUE]
    /\ UNCHANGED <<fitArgs, fitResult, images, options, cliResult, uiResult,
                   output, cliRun, editor, batch, parsed, app, queue>>

GroupingLayouts ==
    {[IdleOptions EXCEPT !.layout = "2"], [IdleOptions EXCEPT !.layout = "3"],
     [IdleOptions EXCEPT !.layout = "custom", !.customGrid = Grid(1, 1)]}

InitGroup ==
    /\ options \in GroupingLayouts
    /\ images = << >>
    /\ grouping = IdleGrouping
    /\ cliResult = NoResult
    /\ uiResult = NoResult
    /\ fitArgs = FitArgs(1, 1, 1, 1)
    /\ fitResult = NoFit
    /\ output = DefaultOutput
    /\ cliRun = NoRun
    /\ editor = IdleEditor
    /\ batch = IdleBatch
    /\ parsed = NoParse
    /\ app = IdleApp
    /\ queue = IdleQueue

NextGroup == \E files \in FileLists, smart \in BOOLEAN : HandleBatchDrop(files, smart)

SpecGroup == InitGroup /\ [][NextGroup]_vars

---------------------------------------------------------------------------
(* CLI batch mode: runBatch (cli/splitmerge.js)                            *)

MaxBatch == 3

\* One element of the batch array. kind: "pair" has left and right, "images"
\* has an images array, "none" is a value with neither (an empty object, a
\* number, a string), "null" is null. hasOut: the element has a string `out`.
Item(kind, hasOut, imgs) == [kind |-> kind, hasOut |-> hasOut, images |-> imgs]

GoodPair == << Img(1, 2), Img(3, 2) >>

BadPair == << Img(1, 2), NoImg >>

ItemChoices ==
    {Item("pair", TRUE, GoodPair), Item("pair", TRUE, BadPair),
     Item("pair", FALSE, GoodPair),
     Item("images", TRUE, << Img(1, 2), Img(3, 2), Img(1, 2) >>),
     Item("images", TRUE, << >>),
     Item("none", TRUE, << >>), Item("none", FALSE, << >>),
     Item("null", FALSE, << >>)}

batchFrame ==
    <<fitArgs, fitResult, images, options, cliResult, uiResult, output, cliRun,
      editor, grouping, parsed, app, queue>>

\* runBatch up to the loop: the batch file exists and holds an array
BatchStart(pairs) ==
    /\ batch.status = "idle"
    /\ batch' = [IdleBatch EXCEPT !.pairs = pairs, !.status = "running"]
    /\ UNCHANGED batchFrame

\* path.resolve(outDir, item.out) comes first in the loop body, outside any
\* try: it throws a TypeError for null (no property access) and for a missing
\* `out` (not a string); the rejection reaches main().catch, which exits 1
BatchItemThrows(item) == item.kind = "null" \/ ~item.hasOut

\* The item reaches mergeImages: it has left and right, or an images array
BatchItemMerges(item) == item.kind \in {"pair", "images"}

\* The loop body on `item` at index b.i, where ok tells whether its merge
\* wrote an output
BatchStep(b, item, ok) ==
    IF BatchItemThrows(item)
    THEN [b EXCEPT !.status = "aborted", !.exitCode = 1]
    ELSE [b EXCEPT
            !.i = @ + 1,
            !.attempted = Append(@, b.i),
            !.outcomes = Append(@, IF ok THEN "success" ELSE "failed"),
            !.success = IF ok THEN @ + 1 ELSE @,
            !.failed = IF ok THEN @ ELSE @ + 1,
            !.outputs = IF ok THEN @ \cup {b.i} ELSE @]

\* The merge of one item: an invalid item counts as failed without a merge
BatchItemOk(item, o, out) ==
    /\ BatchItemMerges(item)
    /\ CliRunMerge(item.images, o, out).status = "ok"

\* One iteration of the loop
BatchItem ==
    /\ batch.status = "running"
    /\ batch.i < Len(batch.pairs)
    /\ batch' = BatchStep(batch, batch.pairs[batch.i + 1],
                          BatchItemOk(batch.pairs[batch.i + 1], options, output))
    /\ UNCHANGED batchFrame

\* After the loop: print the tallies, exit 1 when anything failed
BatchFinish ==
    /\ batch.status = "running"
    /\ batch.i = Len(batch.pairs)
    /\ batch' = [batch EXCEPT !.status = "done", !.reported = TRUE,
                              !.exitCode = IF batch.failed > 0 THEN 1 ELSE 0]
    /\ UNCHANGED batchFrame

InitBatch ==
    /\ options \in {[IdleOptions EXCEPT !.mode = m] : m \in ModeChoices}
    /\ images = << >>
    /\ batch = IdleBatch
    /\ parsed = NoParse
    /\ app = IdleApp
    /\ queue = IdleQueue
    /\ cliResult = NoResult
    /\ uiResult = NoResult
    /\ fitArgs = FitArgs(1, 1, 1, 1)
    /\ fitResult = NoFit
    /\ output = DefaultOutput
    /\ cliRun = NoRun
    /\ editor = IdleEditor
    /\ grouping = IdleGrouping

NextBatch ==
    \/ \E pairs \in SeqsUpTo(ItemChoices, MaxBatch) : BatchStart(pairs)
    \/ BatchItem
    \/ BatchFinish

SpecBatch == InitBatch /\ [][NextBatch]_vars

---------------------------------------------------------------------------
(* State machine: CLI merges to out paths of every kind                    *)

\* path.extname(outPath) for the out paths tried; "" is a path without one
ExtChoices == {".jpg", ".jpeg", ".webp", ".png", ".JPG", ".WebP", ".gif", ""}

QualityChoices ==
    {NoQuality, Quality(0), Quality(1), Quality(50), Quality(100), Quality(101),
     Quality(-1)}

EncodedSources == {GoodPair, BadPair, << Img(3, 2), Img(1, 2), Img(3, 2) >>}

InitEncode ==
    /\ images \in EncodedSources
    /\ options \in {[IdleOptions EXCEPT !.mode = m] : m \in ModeChoices}
    /\ output \in {[ext |-> e, quality |-> q] : e \in ExtChoices, q \in QualityChoices}
    /\ cliResult = NoResult
    /\ cliRun = NoRun
    /\ uiResult = NoResult
    /\ fitArgs = FitArgs(1, 1, 1, 1)
    /\ fitResult = NoFit
    /\ editor = IdleEditor
    /\ grouping = IdleGrouping
    /\ batch = IdleBatch
    /\ parsed = NoParse
    /\ app = IdleApp
    /\ queue = IdleQueue

NextEncode == CliMerge

SpecEncode == InitEncode /\ [][NextEncode]_vars

---------------------------------------------------------------------------
(* Interactive app: slots, layout and preview (ui/app.js)                  *)
(* Every action is one task of the event loop: a handler up to its first   *)
(* wait for an image to load or for a merge to settle. A merge settles in  *)
(* a later task when the renderer resizes through pica.                    *)

MaxEvents == 5

MaxLoads == 1

Loaded(id) == [id |-> id, flipH |-> FALSE]

HasAny(imgs) == \E i \in DOMAIN imgs : imgs[i].id # 0

\* parseInt(layoutId) || 0, or rows * cols for 'custom'
TargetSize(layoutId, grid) ==
    IF layoutId = "custom" THEN grid.rows * grid.cols
    ELSE IF layoutId = "2" THEN 2
    ELSE IF layoutId = "3" THEN 3
    ELSE IF layoutId = "4" THEN 4
    ELSE 0

\* state.images truncated or padded with null to n slots
Resized(imgs, n) == [k \in 1..n |-> IF k <= Len(imgs) THEN imgs[k] ELSE NullSlot]

\* state.images[index] = v: an index past the end lengthens the array
SetAt(imgs, index, v) ==
    [k \in 1..MaxIndex(Len(imgs), index + 1) |->
        IF k = index + 1 THEN v ELSE IF k <= Len(imgs) THEN imgs[k] ELSE NullSlot]

\* updatePreview without its isProcessing guard
UpdatePreviewUnguarded(a) ==
    IF ~HasAny(a.images)
    THEN [a EXCEPT !.buttons = FALSE, !.mergedCanvas = NoCanvas]
    ELSE [a EXCEPT !.isProcessing = TRUE,
                   !.flights = Append(@, Snapshot(a.layout, a.grid, a.images,
                                                  a.spacing))]

\* updatePreview up to its first wait
UpdatePreview(a) ==
    IF a.isProcessing THEN a
    ELSE IF ~HasAny(a.images)
         THEN [a EXCEPT !.buttons = FALSE, !.mergedCanvas = NoCanvas]
    ELSE [a EXCEPT !.isProcessing = TRUE,
                   !.flights = Append(@, Snapshot(a.layout, a.grid, a.images,
                                                  a.spacing))]

updateLayoutState(a, layoutId) ==
    [a EXCEPT !.layout = layoutId,
              !.images = Resized(a.images, TargetSize(layoutId, a.grid))]

setLayout(a, layoutId) ==
    IF a.layout = layoutId THEN a
    ELSE UpdatePreview(updateLayoutState(a, layoutId))

\* One more user event
Event(a) == [a EXCEPT !.events = @ + 1]

appFrame ==
    <<fitArgs, fitResult, images, options, cliResult, uiResult, output, cliRun,
      editor, grouping, batch, parsed, queue>>

\* A layout button is clicked
ClickLayout(layoutId) ==
    /\ app.events < MaxEvents
    /\ app' = setLayout(Event(app), layoutId)
    /\ UNCHANGED appFrame

\* The template select changes to '2', '3', '4' or to a 'RxC' grid
SelectTemplate(t) ==
    /\ app.events < MaxEvents
    /\ app' = IF t.custom
              THEN setLayout([Event(app) EXCEPT !.grid = Grid(t.rows, t.cols)], "custom")
              ELSE setLayout(Event(app), t.layout)
    /\ UNCHANGED appFrame

clearSlot(index) ==
    /\ app.events < MaxEvents
    /\ index < Len(app.images)
    /\ LET imgs == [app.images EXCEPT ![index + 1] = NullSlot]
       IN  app' = UpdatePreview([Event(app) EXCEPT
                     !.images = imgs,
                     !.emptied = @ \/ (HasAny(app.images) /\ ~HasAny(imgs))])
    /\ UNCHANGED appFrame

swapSlots(idx1, idx2) ==
    /\ app.events < MaxEvents
    /\ idx1 < Len(app.images) /\ idx2 < Len(app.images)
    /\ app' = UpdatePreview([Event(app) EXCEPT
                 !.images = [@ EXCEPT ![idx1 + 1] = app.images[idx2 + 1],
                                      ![idx2 + 1] = app.images[idx1 + 1]]])
    /\ UNCHANGED appFrame

\* applyTransform(index, 'flipH'): nothing happens on an empty slot
applyTransform(index) ==
    /\ app.events < MaxEvents
    /\ index < Len(app.images)
    /\ app' = IF app.images[index + 1].id = 0 THEN Event(app)
              ELSE UpdatePreview([Event(app) EXCEPT
                      !.images[index + 1].flipH = ~@])
    /\ UNCHANGED appFrame

\* The gap input changes
GapInput(v) ==
    /\ app.events < MaxEvents
    /\ app' = UpdatePreview([Event(app) EXCEPT !.spacing = v])
    /\ UNCHANGED appFrame

\* handleImageSet up to `await loadImage(file)`: the file is valid
handleImageSet(index, id) ==
    /\ app.events < MaxEvents
    /\ index < Len(app.images)
    /\ Cardinality(app.loads) < MaxLoads
    /\ app' = [Event(app) EXCEPT !.loads = @ \cup {[index |-> index, id |-> id]}]
    /\ UNCHANGED appFrame

\* The image has loaded: the rest of handleImageSet
LoadDone(l) ==
    /\ l \in app.loads
    /\ app' = UpdatePreview([app EXCEPT
                 !.loads = @ \ {l},
                 !.images = SetAt(@, l.index, Loaded(l.id)),
                 !.emptied = FALSE])
    /\ UNCHANGED appFrame

\* The image failed to load: the catch of handleImageSet
LoadFail(l) ==
    /\ l \in app.loads
    /\ app' = [app EXCEPT !.loads = @ \ {l}]
    /\ UNCHANGED appFrame

\* mergeImages throws: Split without a left or a right image
MergeThrows(snap) ==
    /\ snap.layout \notin {"3", "4", "custom"}
    /\ \/ Len(snap.images) < 2
       \/ snap.images[1].id = 0
       \/ snap.images[2].id = 0

\* The merge started first settles: the rest of updatePreview, its try, catch
\* and finally
PreviewSettles ==
    /\ app.flights # << >>
    /\ app' = IF MergeThrows(Head(app.flights))
              THEN [app EXCEPT !.flights = Tail(@), !.isProcessing = FALSE]
              ELSE [app EXCEPT !.flights = Tail(@), !.isProcessing = FALSE,
                               !.buttons = TRUE,
                               !.mergedCanvas = [present |-> TRUE,
                                                 from |-> Head(app.flights)]]
    /\ UNCHANGED appFrame

handleResetAll ==
    /\ app.events < MaxEvents
    /\ app' = IF ~HasAny(app.images) THEN Event(app)
              ELSE UpdatePreview([Event(app) EXCEPT
                      !.images = [k \in DOMAIN @ |-> NullSlot],
                      !.mergedCanvas = NoCanvas,
                      !.emptied = TRUE])
    /\ UNCHANGED appFrame

Template(layoutId) == [custom |-> FALSE, layout |-> layoutId, rows |-> 0, cols |-> 0]

GridTemplate(rows, cols) ==
    [custom |-> TRUE, layout |-> "custom", rows |-> rows, cols |-> cols]

LayoutButtons == {"2", "4", "custom"}

TemplateChoices == {Template("3"), GridTemplate(1, 3), GridTemplate(2, 2)}

SlotChoices == {0, 1}

GapValues == {0, 10}

InitApp ==
    /\ app = IdleApp
    /\ options = IdleOptions
    /\ images = << >>
    /\ cliResult = NoResult
    /\ uiResult = NoResult
    /\ fitArgs = FitArgs(1, 1, 1, 1)
    /\ fitResult = NoFit
    /\ output = DefaultOutput
    /\ cliRun = NoRun
    /\ editor = IdleEditor
    /\ grouping = IdleGrouping
    /\ batch = IdleBatch
    /\ parsed = NoParse
    /\ queue = IdleQueue

NextApp ==
    \/ \E l \in LayoutButtons : ClickLayout(l)
    \/ \E t \in TemplateChoices : SelectTemplate(t)
    \/ \E i \in SlotChoices : clearSlot(i)
    \/ swapSlots(0, 1)
    \/ applyTransform(0)
    \/ \E v \in GapValues : GapInput(v)
    \/ \E i \in SlotChoices : handleImageSet(i, i + 1)
    \/ \E l \in app.loads : LoadDone(l)
    \/ \E l \in app.loads : LoadFail(l)
    \/ PreviewSettles
    \/ handleResetAll


SpecApp == InitApp /\ [][NextApp]_vars

\* A merge that was started settles: mergeImages returns or throws
SpecAppLive == SpecApp /\ WF_vars(PreviewSettles)

---------------------------------------------------------------------------
(* Interactive batch: the queue and runBatchMerge (ui/app.js)              *)

MaxDrops == 2

MaxRuns == 1

\* A file that passes validateFile but does not decode
Corrupt == <<"b", "-", "a", ".", "c">>

queueFrame ==
    <<fitArgs, fitResult, images, options, cliResult, uiResult, output, cliRun,
      editor, grouping, batch, parsed, app>>

\* The catch and finally of runBatchMerge
BatchAbort(q, fault) ==
    [q EXCEPT !.report = "failed", !.fault = fault, !.isProcessing = FALSE,
              !.awaiting = FALSE]

\* After the loop: full progress bar, the toast, the export, the finally
BatchComplete(q) ==
    [q EXCEPT !.progress = Append(@, Num(100)), !.report = "complete",
              !.isProcessing = FALSE, !.awaiting = FALSE]

\* The head of one loop pass, up to `await Promise.all(...)`: the group is
\* read from batchState.groups as it is now, and group[0] of a missing group
\* throws
BatchBegin(q) ==
    IF q.i >= Len(q.groups)
    THEN BatchAbort([q EXCEPT !.progress =
                        Append(@, MathRound(QDiv(Num(100 * q.i), Num(q.total))))],
                    "read")
    ELSE [q EXCEPT !.current = q.groups[q.i + 1],
                   !.attempted = Append(@, q.groups[q.i + 1]),
                   !.progress = Append(@, MathRound(QDiv(Num(100 * q.i), Num(q.total)))),
                   !.awaiting = TRUE]

\* for (let i = 0; i < total; i++)
BatchLoop(q) == IF q.i < q.total THEN BatchBegin(q) ELSE BatchComplete(q)

\* The mergeImages call of one pass: the group's images and the options read
\* from the app as it is now
BatchMergeCall(q, a) ==
    [files |-> q.current, layout |-> a.layout, grid |-> a.grid]

\* The rest of one pass once the group's images have settled, and the head
\* of the next pass
BatchPass(q, a, exportOk) ==
    IF \E k \in DOMAIN q.current : q.current[k] = Corrupt
    THEN BatchAbort(q, "load")
    ELSE IF a.layout \notin {"3", "4", "custom"} /\ Len(q.current) < 2
    THEN BatchAbort([q EXCEPT !.merged = Append(@, BatchMergeCall(q, a))], "merge")
    ELSE IF ~exportOk
    THEN BatchAbort([q EXCEPT !.merged = Append(@, BatchMergeCall(q, a))], "export")
    ELSE BatchLoop([q EXCEPT !.merged = Append(@, BatchMergeCall(q, a)),
                             !.results = Append(@, q.current[1]),
                             !.i = @ + 1,
                             !.awaiting = FALSE])

\* runBatchMerge up to its first wait
runBatchMerge ==
    /\ queue.runs < MaxRuns \/ queue.isProcessing
    /\ queue' =
         IF queue.isProcessing \/ Len(queue.groups) = 0
         THEN [queue EXCEPT !.rejected = @ \/ queue.isProcessing]
         ELSE BatchBegin([queue EXCEPT
                 !.isProcessing = TRUE, !.results = << >>,
                 !.total = Len(queue.groups), !.i = 0,
                 !.queued = queue.groups, !.attempted = << >>,
                 !.merged = << >>, !.progress = << >>, !.report = "none",
                 !.fault = "none", !.rejected = FALSE, !.changed = FALSE,
                 !.runs = @ + 1])
    /\ UNCHANGED queueFrame

\* The images of the current group have loaded or one has failed
BatchPassSettles(exportOk) ==
    /\ queue.awaiting
    /\ queue' = BatchPass(queue, app, exportOk)
    /\ UNCHANGED queueFrame

\* handleBatchDrop(files): the groups are pushed onto the queue
QueueDrop(files, smart) ==
    /\ queue.drops < MaxDrops
    /\ queue' = [queue EXCEPT
         !.groups = @ \o GroupFiles(files,
                        GroupSize([layout |-> app.layout, customGrid |-> app.grid]),
                        smart),
         !.changed = @ \/ queue.isProcessing,
         !.drops = @ + 1]
    /\ UNCHANGED queueFrame

\* The clear button: enabled while the queue has groups
QueueClear ==
    /\ Len(queue.groups) > 0
    /\ queue' = [queue EXCEPT !.groups = << >>,
                              !.changed = @ \/ queue.isProcessing]
    /\ UNCHANGED queueFrame

\* The remove button of group idx: batchState.groups.splice(idx, 1)
QueueRemove(idx) ==
    /\ idx < Len(queue.groups)
    /\ queue' = [queue EXCEPT
         !.groups = SubSeq(@, 1, idx) \o SubSeq(@, idx + 2, Len(@)),
         !.changed = @ \/ queue.isProcessing]
    /\ UNCHANGED queueFrame

DropChoices ==
    { << <<"a", "_", "b", ".", "c">>, <<"a", "_", "c", ".", "c">> >>,
      << Corrupt, <<"a", "_", "b", ".", "c">> >>,
      << <<"a", "_", "b", "_", "a", ".", "c">>, <<"a", "_", "b", "_", "b", ".", "c">>,
         <<"a", "_", "b", ".", "c">>, <<"a", "_", "c", ".", "c">> >> }

QueueLayouts == {"2", "4"}

InitQueue ==
    /\ queue = IdleQueue
    /\ app = IdleApp
    /\ options = IdleOptions
    /\ images = << >>
    /\ cliResult = NoResult
    /\ uiResult = NoResult
    /\ fitArgs = FitArgs(1, 1, 1, 1)
    /\ fitResult = NoFit
    /\ output = DefaultOutput
    /\ cliRun = NoRun
    /\ editor = IdleEditor
    /\ grouping = IdleGrouping
    /\ batch = IdleBatch
    /\ parsed = NoParse

NextQueue ==
    \/ \E l \in QueueLayouts : ClickLayout(l)
    \/ \E files \in DropChoices, smart \in BOOLEAN : QueueDrop(files, smart)
    \/ runBatchMerge
    \/ \E exportOk \in BOOLEAN : BatchPassSettles(exportOk)
    \/ QueueClear
    \/ \E idx \in 0..1 : QueueRemove(idx)

SpecQueue == InitQueue /\ [][NextQueue]_vars

---------------------------------------------------------------------------
(* State machine: parseBgColor on colour strings (cli/splitmerge.js)       *)

HexChars == {"0", "9", "a", "f", "F", "g"}

SixDigitChars == {"0", "f", "A"}

SeqsOfLen(S, n) == [1..n -> S]

\* 3- and 6-character strings, every one also with a leading '#'; "g" is not
\* a hex digit
HexInputs ==
    LET bare == SeqsOfLen(HexChars, 3) \cup SeqsOfLen(SixDigitChars, 6)
                \cup {ExpandShort(h) : h \in SeqsOfLen(HexChars, 3)}
    IN  bare \cup {<<"#">> \o h : h \in bare}

colorFrame ==
    <<fitArgs, fitResult, images, options, cliResult, uiResult, output, cliRun,
      editor, grouping, batch, app, queue>>

ParseBgColorCall ==
    /\ ~parsed.done
    /\ parsed' = [parsed EXCEPT !.done = TRUE, !.color = parseBgColor(parsed.input)]
    /\ UNCHANGED colorFrame

InitColor ==
    /\ parsed \in {[input |-> h, done |-> FALSE, color |-> HexChannels(<< >>)] :
                     h \in HexInputs}
    /\ options = IdleOptions
    /\ images = << >>
    /\ cliResult = NoResult
    /\ uiResult = NoResult
    /\ fitArgs = FitArgs(1, 1, 1, 1)
    /\ fitResult = NoFit
    /\ output = DefaultOutput
    /\ cliRun = NoRun
    /\ editor = IdleEditor
    /\ grouping = IdleGrouping
    /\ batch = IdleBatch
    /\ app = IdleApp
    /\ queue = IdleQueue

NextColor == ParseBgColorCall

SpecColor == InitColor /\ [][NextColor]_vars

---------------------------------------------------------------------------
(* State machine: the CLI reading its command line (cli/splitmerge.js)     *)

MaxArgs == 4

\* --o, --g, a, b, the empty string, -a and the bare --
TokenChoices ==
    { <<"-", "-", "o">>, <<"-", "-", "g">>, <<"a">>, <<"b">>, << >>,
      <<"-", "a">>, <<"-", "-">> }

\* main up to the images check: parseArgs and the realImages loop
MainReadsArgs ==
    /\ ~parsed.done
    /\ parsed' = [parsed EXCEPT !.done = TRUE,
                                !.args = parseArgs(parsed.input),
                                !.images = realImages(parsed.input)]
    /\ UNCHANGED colorFrame

InitArgs ==
    /\ parsed \in {[input |-> argv, done |-> FALSE, args |-> {}, images |-> << >>] :
                     argv \in SeqsUpTo(TokenChoices, MaxArgs)}
    /\ options = IdleOptions
    /\ images = << >>
    /\ cliResult = NoResult
    /\ uiResult = NoResult
    /\ fitArgs = FitArgs(1, 1, 1, 1)
    /\ fitResult = NoFit
    /\ output = DefaultOutput
    /\ cliRun = NoRun
    /\ editor = IdleEditor
    /\ grouping = IdleGrouping
    /\ batch = IdleBatch
    /\ app = IdleApp
    /\ queue = IdleQueue

NextArgs == MainReadsArgs

SpecArgs == InitArgs /\ [][NextArgs]_vars

---------------------------------------------------------------------------
(* Claims                                                                  *)

\* k is n/d rounded to the nearest integer, halves up (d > 0)
RoundsTo(k, n, d) == 2 * k * d <= 2 * n + d /\ 2 * n + d < 2 * (k + 1) * d

\* n/d rounded to the nearest integer, halves up (d > 0)
RoundDiv(n, d) == (2 * n + d) \div (2 * d)

MaxOf(a, b) == IF a < b THEN b ELSE a

Results == {cliResult, uiResult}

\* C1: for positive integer arguments fitInBox returns w = round(srcW*s),
\* h = round(srcH*s) with s = min(targetW/srcW, targetH/srcH), and
\* offsetX = round((targetW-w)/2), offsetY = round((targetH-h)/2), halves
\* rounded up; fit(1000,1000,500,500) = {500,500,0,0},
\* fit(1000,500,500,500) = {500,250,0,125}, fit(500,500,1000,1000) = {1000,1000,0,0}
C1_FitInBox ==
    fitResult # NoFit =>
        LET a == fitArgs
            r == fitResult
            byWidth == a.targetW * a.srcH <= a.targetH * a.srcW
            p == IF byWidth THEN a.targetW ELSE a.targetH
            q == IF byWidth THEN a.srcW ELSE a.srcH
        IN  /\ IsInteger(r.w) /\ IsInteger(r.h)
            /\ IsInteger(r.offsetX) /\ IsInteger(r.offsetY)
            /\ RoundsTo(r.w.n, a.srcW * p, q)
            /\ RoundsTo(r.h.n, a.srcH * p, q)
            /\ RoundsTo(r.offsetX.n, a.targetW - r.w.n, 2)
            /\ RoundsTo(r.offsetY.n, a.targetH - r.h.n, 2)
            /\ (a = FitArgs(1000, 1000, 500, 500) =>
                    r = [w |-> Num(500), h |-> Num(500),
                         offsetX |-> Num(0), offsetY |-> Num(0)])
            /\ (a = FitArgs(1000, 500, 500, 500) =>
                    r = [w |-> Num(500), h |-> Num(250),
                         offsetX |-> Num(0), offsetY |-> Num(125)])
            /\ (a = FitArgs(500, 500, 1000, 1000) =>
                    r = [w |-> Num(1000), h |-> Num(1000),
                         offsetX |-> Num(0), offsetY |-> Num(0)])

C1_Witness ==
    /\ fitArgs = FitArgs(1000, 500, 500, 500)
    /\ fitResult = [w |-> Num(500), h |-> Num(250),
                    offsetX |-> Num(0), offsetY |-> Num(125)]

\* C2: a Split merge given width > 0 and height > 0 returns exactly that
\* width and height, whatever the source sizes, in fit and in stretch mode
C2_SplitExplicitSize ==
    \A r \in Results :
        (r.status = "ok" /\ options.layout = "2"
            /\ options.width > 0 /\ options.height > 0)
        => (r.width = Num(options.width) /\ r.height = Num(options.height))

C2_Witness ==
    /\ options.layout = "2" /\ options.width = 5 /\ options.height = 3
    /\ options.mode = "stretch"
    /\ images = << Img(1, 2), Img(3, 2) >>
    /\ cliResult.status = "ok" /\ cliResult.width = Num(5)
    /\ uiResult.status = "ok" /\ uiResult.height = Num(3)

\* The Split merges whose width is derived from two sources
SplitDerivedWidth(r) ==
    /\ r.status = "ok"
    /\ options.layout = "2"
    /\ options.width = 0
    /\ Len(images) >= 2

SplitTargetHeight ==
    IF options.height > 0 THEN options.height
    ELSE MaxOf(images[1].height, images[2].height)

\* C3 as stated: with a derived width the Split output height is the given
\* height (the larger source height when none is given) and the width is
\* round(scaledWidth_0) + round(scaledWidth_1) + gap, each side rounded alone
C3_PerSideRounding ==
    \A r \in Results :
        SplitDerivedWidth(r) =>
            LET H == SplitTargetHeight
            IN  /\ r.height = Num(H)
                /\ r.width = Num(RoundDiv(images[1].width * H, images[1].height)
                                 + RoundDiv(images[2].width * H, images[2].height)
                                 + options.gap)

\* C3 amended: the height is as stated; with only height given the width is
\* round(scaledWidth_0 + scaledWidth_1 + gap), one rounding of the sum; with
\* neither given it is round(scaledWidth_0) + round(scaledWidth_1) + gap
C3_DerivedWidth ==
    \A r \in Results :
        SplitDerivedWidth(r) =>
            LET H == SplitTargetHeight
                w0 == images[1].width
                h0 == images[1].height
                w1 == images[2].width
                h1 == images[2].height
            IN  /\ r.height = Num(H)
                /\ options.height > 0 =>
                       r.width = Num(RoundDiv((w0 * h1 + w1 * h0) * H
                                                + options.gap * h0 * h1, h0 * h1))
                /\ options.height = 0 =>
                       r.width = Num(RoundDiv(w0 * H, h0) + RoundDiv(w1 * H, h1)
                                     + options.gap)

C3_Witness ==
    /\ options.layout = "2" /\ options.width = 0 /\ options.height = 3
    /\ options.gap = 0
    /\ images = << Img(1, 2), Img(1, 2) >>
    /\ cliResult.status = "ok" /\ cliResult.width = Num(3)
    /\ uiResult.status = "ok" /\ uiResult.width = Num(3)

\* C4: every merge that returns a result returns a positive integer width and
\* height; Split with only width given returns exactly that width
C4_PositiveCanvas ==
    \A r \in Results :
        r.status = "ok" =>
            /\ IsInteger(r.width) /\ r.width.n > 0
            /\ IsInteger(r.height) /\ r.height.n > 0
            /\ (options.layout = "2" /\ options.width > 0 /\ options.height = 0)
               => r.width = Num(options.width)

\* The grid a layout is meant to lay out, and its slot count
LayoutRows == IF options.layout = "2" THEN 1
              ELSE IF options.layout = "custom" THEN options.customGrid.rows
              ELSE 2

LayoutCols == IF options.layout = "custom" THEN options.customGrid.cols ELSE 2

SlotCount == IF options.layout = "3" THEN 3 ELSE LayoutRows * LayoutCols

\* The options name a layout with its grid
LayoutGiven == options.layout = "custom" => options.customGrid.given

Right(s) == QAdd(s.x, s.w)

Bottom(s) == QAdd(s.y, s.h)

RECURSIVE SumAreas(_)
SumAreas(slots) ==
    IF slots = << >> THEN Num(0)
    ELSE QAdd(QMul(Head(slots).w, Head(slots).h), SumAreas(Tail(slots)))

\* The canvas area left for the slots once gap-wide strips separate them
AreaLessGaps(W, H) ==
    LET g == Num(options.gap)
    IN  IF options.layout = "3"
        THEN QDiv(QMul(QSub(QMul(Num(2), W), g), QSub(H, g)), Num(2))
        ELSE QMul(QSub(W, QMul(Num(LayoutCols - 1), g)),
                  QSub(H, QMul(Num(LayoutRows - 1), g)))

\* C5: the slot rectangles of one merge are pairwise non-overlapping, lie
\* inside the canvas and cover it except for strips of exactly gap pixels
\* between adjacent slots; Grid2x2 with gap 20 has 1490-pixel cells
C5_SlotsPartitionCanvas ==
    \A r \in Results :
        (/\ r.status = "ok"
         /\ LayoutGiven
         /\ QLt(QMul(Num(LayoutCols), Num(options.gap)), r.width)
         /\ QLt(QMul(Num(LayoutRows), Num(options.gap)), r.height))
        =>
        /\ \A k \in DOMAIN r.slots :
              LET s == r.slots[k]
              IN  /\ QLe(Num(0), s.x) /\ QLe(Num(0), s.y)
                  /\ QLt(Num(0), s.w) /\ QLt(Num(0), s.h)
                  /\ QLe(Right(s), r.width) /\ QLe(Bottom(s), r.height)
        /\ \A j, k \in DOMAIN r.slots :
              j < k =>
                LET a == r.slots[j]
                    b == r.slots[k]
                IN  \/ QLe(Right(a), b.x) \/ QLe(Right(b), a.x)
                    \/ QLe(Bottom(a), b.y) \/ QLe(Bottom(b), a.y)
        /\ SumAreas(r.slots) = AreaLessGaps(r.width, r.height)
        /\ (options.layout = "4" /\ options.gap = 20) =>
              \A k \in DOMAIN r.slots :
                  r.slots[k].w = Num(1490) /\ r.slots[k].h = Num(1490)

PaintRect(p) == [index |-> p.index, x |-> p.x, y |-> p.y, w |-> p.w, h |-> p.h]

\* C6: for the same images and options the CLI and the interactive merge
\* compute the same canvas size, the same ordered slot rectangles and the
\* same painted rectangle for every image
C6_SameGeometry ==
    (cliResult.status = "ok" /\ uiResult.status = "ok" /\ LayoutGiven) =>
        /\ cliResult.width = uiResult.width
        /\ cliResult.height = uiResult.height
        /\ cliResult.slots = uiResult.slots
        /\ [j \in DOMAIN cliResult.paints |-> PaintRect(cliResult.paints[j])]
           = [j \in DOMAIN uiResult.paints |-> PaintRect(uiResult.paints[j])]

FixedLayout == options.layout \in {"3", "4"} \/ (options.layout = "custom" /\ LayoutGiven)

IsSize(r, w, h) == r.width = Num(w) /\ r.height = Num(h)

PaintedIndexes ==
    {i \in 0..(MinInt(Len(images), SlotCount) - 1) : images[i + 1].present}

\* C8: image i is painted into slot i for every i < min(N, S) that holds an
\* image, the other slots are left as background, and images with index >= S
\* are ignored: the merge does what it does for the first S images
C8_SlotPolicy ==
    /\ \A r \in Results :
          (r.status = "ok" /\ LayoutGiven) =>
              /\ Len(r.slots) = SlotCount
              /\ Len(r.paints) = Cardinality(PaintedIndexes)
              /\ {r.paints[j].index : j \in DOMAIN r.paints} = PaintedIndexes
              /\ \A j, k \in DOMAIN r.paints :
                    j < k => r.paints[j].index < r.paints[k].index
              /\ \A j \in DOMAIN r.paints :
                    LET p == r.paints[j]
                    IN  /\ p.slot = r.slots[p.index + 1]
                        /\ p.srcW = Num(images[p.index + 1].width)
                        /\ p.srcH = Num(images[p.index + 1].height)
    /\ (/\ cliResult.status # "none" /\ LayoutGiven /\ Len(images) > SlotCount
        /\ \A i \in DOMAIN images : images[i].present)
       => cliResult = CliMergeImages(SubSeq(images, 1, SlotCount), options)
    /\ (uiResult.status # "none" /\ LayoutGiven /\ Len(images) > SlotCount)
       => uiResult = UiMergeImages(SubSeq(images, 1, SlotCount), options)

C8_Witness ==
    /\ options.layout = "3"
    /\ images = << Img(1, 2), Img(3, 2), Img(1, 2), Img(3, 2) >>
    /\ cliResult.status = "ok" /\ Len(cliResult.paints) = 3
    /\ uiResult.status = "ok" /\ Len(uiResult.paints) = 3

PresentCount == Cardinality({i \in DOMAIN images : images[i].present})

\* C9: a Split merge given fewer than 2 present images fails with the
\* insufficient-images error, before any canvas is allocated or output written
C9_SplitNeedsTwo ==
    options.layout = "2" =>
        /\ (/\ cliResult.status # "none" /\ Len(images) < 2
            /\ \A i \in DOMAIN images : images[i].present)
           => /\ cliResult.status \in {"InsufficientImages", "NoInput"}
              /\ ~cliResult.allocated /\ ~cliResult.written
        /\ (uiResult.status # "none" /\ PresentCount < 2)
           => /\ uiResult.status = "InsufficientImages"
              /\ ~uiResult.allocated /\ ~uiResult.written

\* C10: the source width/height the Split sizing uses for a side are the
\* effective width/height the fit of that side uses (after crop, after the
\* swap for a quarter turn)
C10_SizingUsesEffectiveSize ==
    (uiResult.status = "ok" /\ options.layout = "2") =>
        \A j \in DOMAIN uiResult.paints :
            LET p == uiResult.paints[j]
            IN  /\ uiResult.sizing[p.index + 1].w = p.srcW
                /\ uiResult.sizing[p.index + 1].h = p.srcH

\* C11: after any sequence of +90 / -90 rotations the rotate value is one of
\* 0, 90, 180, 270; four successive equal quarter turns bring rotate and the
\* effective width/height back, and +90 followed by -90 is the identity
C11_RotateRoundTrip ==
    /\ editor.rotate \in {0, 90, 180, 270}
    /\ \A k \in DOMAIN editor.log : editor.log[k].rotate \in {0, 90, 180, 270}
    /\ \A k \in DOMAIN editor.turns :
          (/\ k + 3 \in DOMAIN editor.turns
           /\ \A j \in k..(k + 3) : editor.turns[j] = editor.turns[k])
          => editor.log[k + 4] = editor.log[k]
    /\ \A k \in DOMAIN editor.turns :
          (/\ k + 1 \in DOMAIN editor.turns
           /\ editor.turns[k] = 90 /\ editor.turns[k + 1] = -90)
          => editor.log[k + 2] = editor.log[k]

C11_Witness ==
    /\ editor.turns = <<90, 90, 90, 90>>
    /\ editor.log[2].rotate = 90
    /\ editor.log[2].w = editor.log[1].h
    /\ editor.log[2].w # editor.log[1].w
    /\ editor.log[5] = editor.log[1]

ValidRect(r) ==
    /\ QLe(Num(0), r.x) /\ QLe(Num(0), r.y)
    /\ QLt(Num(0), r.w) /\ QLt(Num(0), r.h)
    /\ QLe(QAdd(r.x, r.w), Num(1)) /\ QLe(QAdd(r.y, r.h), Num(1))

\* C12: after any sequence of crop-editor operations the editor's rectangle
\* and the crop stored on the image satisfy x >= 0, y >= 0, w > 0, h > 0,
\* x + w <= 1 and y + h <= 1
C12_CropWithinUnitSquare ==
    /\ ValidRect(editor.rect)
    /\ editor.crop.present => ValidRect(AsRect(editor.crop))

\* C13: a merge made with a crop {x, y, w, h} saved by the crop editor
\* succeeds, and the effective source size of the cropped image is
\* floor(w * srcW) x floor(h * srcH), both positive integers
C13_SavedCropIsUsed ==
    (editor.crop.present /\ uiResult = Preview(editor)
       /\ ValidRect(AsRect(editor.crop))) =>
        /\ uiResult.status = "ok"
        /\ LET p == uiResult.paints[1]
               w == MathFloor(QMul(editor.crop.w, Num(images[1].width)))
               h == MathFloor(QMul(editor.crop.h, Num(images[1].height)))
           IN  /\ p.srcW = w /\ p.srcH = h
               /\ IsInteger(p.srcW) /\ IsInteger(p.srcH)
               /\ QLt(Num(0), p.srcW) /\ QLt(Num(0), p.srcH)

\* C14: sequential grouping with group size n yields exactly floor(len / n)
\* groups of exactly n files each, the consecutive chunks of the input sorted
\* by name; a final partial chunk is discarded
C14_SequentialChunksOfSorted ==
    (grouping.dropped /\ ~grouping.smart) =>
        /\ Len(grouping.groups) = Len(grouping.files) \div grouping.groupSize
        /\ \A k \in DOMAIN grouping.groups :
              Len(grouping.groups[k]) = grouping.groupSize
        /\ grouping.groups = Chunks(SortByName(grouping.files), grouping.groupSize)

\* The key as the grouping rule words it: the extension-stripped name up to,
\* excluding, the last separator; the whole stripped name without one
StatedKey(file) ==
    LET name == StripExt(file)
        lastIdx == MaxIndex(MaxIndex(LastIndexOf(name, "_"), LastIndexOf(name, " ")),
                            LastIndexOf(name, "-"))
    IN  IF lastIdx >= 0 THEN SubSeq(name, 1, lastIdx) ELSE name

FilesWithKey(key) ==
    {i \in DOMAIN grouping.files : StatedKey(grouping.files[i]) = key}

\* C15: smart grouping puts two files in one group only if they share a key,
\* every group has exactly n files, a key with c files yields floor(c / n)
\* groups (none when c < n), and the groups come out in key order; a_L, a_R,
\* b_L, b_R with n = 2 gives [a_L, a_R] then [b_L, b_R]
C15_SmartGroups ==
    (grouping.dropped /\ grouping.smart) =>
        LET g == grouping.groups
            n == grouping.groupSize
            keyOf(k) == StatedKey(g[k][1])
        IN  /\ \A k \in DOMAIN g :
                  /\ Len(g[k]) = n
                  /\ \A i \in DOMAIN g[k] : StatedKey(g[k][i]) = keyOf(k)
            /\ \A i \in DOMAIN grouping.files :
                  LET key == StatedKey(grouping.files[i])
                  IN  Cardinality({k \in DOMAIN g : keyOf(k) = key})
                        = Cardinality(FilesWithKey(key)) \div n
            /\ \A j, k \in DOMAIN g :
                  j < k => ~LocaleLess(keyOf(k), keyOf(j))

Orderings(files) ==
    {p \in [DOMAIN files -> {files[i] : i \in DOMAIN files}] :
        \A i, j \in DOMAIN p : i # j => p[i] # p[j]}

\* C16: for any two orderings of the same set of files and the same group
\* size, sequential grouping returns the same list of groups and so does
\* smart grouping
C16_OrderIndependent ==
    grouping.dropped =>
        \A p \in Orderings(grouping.files) :
            GroupFiles(p, grouping.groupSize, grouping.smart) = grouping.groups

BatchEnded == batch.status \in {"done", "aborted"}

\* The items of the batch whose merge succeeds
MergeableItems ==
    {j \in 0..(Len(batch.pairs) - 1) :
        /\ batch.pairs[j + 1].kind \in {"pair", "images"}
        /\ CliRunMerge(batch.pairs[j + 1].images, options, output).status = "ok"}

\* C17: a batch of k items, each with left and right or an images array,
\* attempts every item in array order whatever
\* happened to earlier items, counts each failing merge as failed, ends with
\* success + failed = k and the tallies reported, writes the outputs of the
\* merges that succeed, and exits with failure exactly when failed > 0
C17_BatchCountsEveryItem ==
    (\A j \in DOMAIN batch.pairs : batch.pairs[j].kind \in {"pair", "images"}) =>
    /\ batch.attempted = [j \in 1..batch.i |-> j - 1]
    /\ BatchEnded =>
          /\ batch.reported
          /\ Len(batch.attempted) = Len(batch.pairs)
          /\ batch.success + batch.failed = Len(batch.pairs)
          /\ batch.outputs = MergeableItems
          /\ batch.success = Cardinality(MergeableItems)
          /\ (batch.exitCode # 0) <=> (batch.failed > 0)

\* C18: an item with neither left and right nor an images array (whether or
\* not it has an out field, whether or not it is an object) is counted as
\* one failed item, and the items after it are still processed
C18_InvalidItemCountsAsFailed ==
    BatchEnded =>
        \A j \in 0..(Len(batch.pairs) - 1) :
            batch.pairs[j + 1].kind \in {"none", "null"} =>
                /\ j + 1 \in DOMAIN batch.outcomes
                /\ batch.outcomes[j + 1] = "failed"
                /\ Len(batch.outcomes) = Len(batch.pairs)

\* C19: a CLI merge with any missing input path fails with the not-found
\* error and writes nothing; every path's existence check has run, and no
\* geometry, decode, canvas, composite or encode step has started
C19_NotFoundBeforeWork ==
    (cliResult.status # "none" /\ \E i \in DOMAIN images : ~images[i].present) =>
        /\ cliResult.status = "NotFound"
        /\ ~cliResult.allocated /\ ~cliResult.written
        /\ \A i \in DOMAIN images :
              \E k \in DOMAIN cliRun.steps : cliRun.steps[k] = Step("exists", i - 1)
        /\ \A k \in DOMAIN cliRun.steps :
              cliRun.steps[k].step \in {"exists", "metadata"}

C19_Witness ==
    /\ images = << Img(1, 2), NoImg, Img(3, 2) >>
    /\ cliResult.status = "NotFound"
    /\ Len(cliRun.steps) = 5

\* The format an extension stands for, letter case aside
StatedFormat(ext) ==
    IF ext \in {".jpg", ".jpeg", ".JPG", ".JPEG"} THEN "jpeg"
    ELSE IF ext \in {".webp", ".WebP", ".WEBP"} THEN "webp"
    ELSE "png"

\* C20, first part: the encoding of a written CLI output follows from the out path's
\* extension alone (.jpg/.jpeg JPEG, .webp WebP, anything else PNG, letter
\* case aside); JPEG and WebP use the requested quality, always within
\* 1..100 and 92 when none is given; PNG ignores quality
C20_EncodingByExtension ==
    cliResult.status = "ok" =>
        /\ cliRun.format = StatedFormat(output.ext)
        /\ cliRun.format \in {"jpeg", "webp"} =>
              /\ cliRun.usesQuality
              /\ cliRun.quality \in 1..100
              /\ ~output.quality.given => cliRun.quality = 92
              /\ (output.quality.given /\ output.quality.value \in 1..100)
                 => cliRun.quality = output.quality.value
        /\ cliRun.format = "png" => ~cliRun.usesQuality

\* C20, PNG part: whatever quality is requested, a PNG merge gives what it
\* gives without one
C20_PngIgnoresQuality ==
    (cliResult.status # "none" /\ StatedFormat(output.ext) = "png") =>
        cliResult = CliRunMerge(images, options, [output EXCEPT !.quality = NoQuality])

\* C20: the CLI output encoding is determined by the out path's extension
\* only, JPEG and WebP use the requested quality (within 1..100, 92 when none
\* is given), and PNG ignores quality
C20_Encoding == C20_EncodingByExtension /\ C20_PngIgnoresQuality

C20_Witness ==
    /\ output = [ext |-> ".jpeg", quality |-> Quality(50)]
    /\ cliResult.status = "ok"
    /\ cliRun.format = "jpeg" /\ cliRun.quality = 50


\* The digits of a colour string: what follows an optional leading '#'
HexDigitsOf(hex) ==
    IF Len(hex) > 0 /\ hex[1] = "#" THEN SubSeq(hex, 2, Len(hex)) ELSE hex

\* A 3- or 6-digit hex value with or without a leading '#'
ValidHex(hex) ==
    /\ Len(HexDigitsOf(hex)) \in {3, 6}
    /\ \A i \in DOMAIN HexDigitsOf(hex) : IsHexDigit(HexDigitsOf(hex)[i])

\* The channel two hex digits stand for
TwoDigits(hi, lo) == 16 * HexValue(hi) + HexValue(lo)

\* The colour the digits d stand for: abc reads as aabbcc
StatedColor(d) ==
    IF Len(d) = 3
    THEN [r |-> Num(TwoDigits(d[1], d[1])), g |-> Num(TwoDigits(d[2], d[2])),
          b |-> Num(TwoDigits(d[3], d[3])), alpha |-> 1]
    ELSE [r |-> Num(TwoDigits(d[1], d[2])), g |-> Num(TwoDigits(d[3], d[4])),
          b |-> Num(TwoDigits(d[5], d[6])), alpha |-> 1]

\* C21: parseBgColor of a 3- or 6-digit hex value, with or without a leading
\* '#', is the colour of its digits, abc standing for aabbcc, whatever the
\* prefix; every channel is an integer in 0..255; '#fff' and 'ffffff' both
\* give r = g = b = 255
C21_ParseBgColor ==
    (parsed.done /\ ValidHex(parsed.input)) =>
        /\ parsed.color = StatedColor(HexDigitsOf(parsed.input))
        /\ \A ch \in {parsed.color.r, parsed.color.g, parsed.color.b} :
              IsInteger(ch) /\ ch.n \in 0..255
        /\ (parsed.input \in {<<"#", "f", "f", "f">>,
                              <<"f", "f", "f", "f", "f", "f">>}
              => parsed.color = [r |-> Num(255), g |-> Num(255), b |-> Num(255),
                                 alpha |-> 1])

C21_Witness ==
    /\ parsed.done
    /\ parsed.input = <<"#", "9", "a", "F">>
    /\ parsed.color = [r |-> Num(153), g |-> Num(170), b |-> Num(255), alpha |-> 1]


\* A run of the interactive batch has ended
RunEnded == queue.runs > 0 /\ ~queue.isProcessing

\* C22: in a run of runBatchMerge over the queued groups (the queue left
\* alone meanwhile), a group that fails to load, merge or export does not
\* stop the run: every queued group is attempted, the progress bar is set
\* after each attempted group, and the run ends with its completion report
C22_FailureStaysWithItsGroup ==
    (RunEnded /\ ~queue.changed) =>
        /\ queue.attempted = queue.queued
        /\ Len(queue.progress) = Len(queue.attempted) + 1
        /\ queue.report = "complete"

\* The number of slots of a layout: 2, 3, 4, or rows x cols
SlotsOf(layout, grid) ==
    CASE layout = "2" -> 2
      [] layout = "3" -> 3
      [] layout = "4" -> 4
      [] layout = "custom" -> grid.rows * grid.cols
      [] OTHER -> 0

\* C23: every group a batch run hands to mergeImages has exactly as many
\* files as the layout used by that merge has slots
C23_GroupsMatchLayout ==
    \A k \in DOMAIN queue.merged :
        Len(queue.merged[k].files)
            = SlotsOf(queue.merged[k].layout, queue.merged[k].grid)


\* Position i of the command line holds a flag
IsFlagAt(argv, i) == StartsWithDashes(argv[i])

\* The token at position i is the value of the flag before it: it follows a
\* flag and does not start with '--'
IsValueAt(argv, i) ==
    i > 1 /\ IsFlagAt(argv, i - 1) /\ ~StartsWithDashes(argv[i])

\* No later flag has the name of the flag at position i
LastOfItsName(argv, i) ==
    \A j \in (i + 1)..Len(argv) : IsFlagAt(argv, j) => argv[j] # argv[i]

\* The tokens that are neither flags nor flag values, in order
RECURSIVE StatedImages(_, _)
StatedImages(argv, i) ==
    IF i > Len(argv) THEN << >>
    ELSE (IF IsFlagAt(argv, i) \/ IsValueAt(argv, i) THEN << >> ELSE <<argv[i]>>)
         \o StatedImages(argv, i + 1)

\* C24: each flag followed by a token that does not start with '--' gets
\* that token as its value, each flag followed by a flag or by nothing gets
\* true (the last flag of a name decides), and the input images are the
\* tokens that are neither flags nor flag values, in command-line order
C24_ParseArgs ==
    parsed.done =>
        LET argv == parsed.input
        IN  /\ \A i \in DOMAIN argv :
                  (IsFlagAt(argv, i) /\ LastOfItsName(argv, i)) =>
                      IF i < Len(argv) /\ ~StartsWithDashes(argv[i + 1])
                      THEN FlagValue(SubSeq(argv[i], 3, Len(argv[i])), argv[i + 1])
                               \in parsed.args
                      ELSE FlagSet(SubSeq(argv[i], 3, Len(argv[i]))) \in parsed.args
            /\ parsed.images = StatedImages(argv, 1)


\* C25: state.images has as many entries as the current layout has slots
\* (2, 3, 4, or rows x cols of the custom grid), whatever layout clicks,
\* template selections, clears, swaps and image loads came before
C25_SlotsMatchLayout == Len(app.images) = SlotsOf(app.layout, app.grid)

\* Nothing is under way: no merge in flight, no image load pending
AppQuiet == ~app.isProcessing /\ app.flights = << >> /\ app.loads = {}

\* What the app would merge now
CurrentSnapshot == Snapshot(app.layout, app.grid, app.images, app.spacing)

\* C26: when no preview is in progress and no load is pending, and the
\* current slots can be merged, state.mergedCanvas is the merge of the current
\* images, transforms, layout, spacing and grid
C26_PreviewIsFresh ==
    (AppQuiet /\ HasAny(app.images) /\ ~MergeThrows(CurrentSnapshot)) =>
        (app.mergedCanvas.present /\ app.mergedCanvas.from = CurrentSnapshot)

\* C27: after Reset All or the clearing of the last image, once no merge is
\* in flight, there is no merged canvas and save and copy are disabled, until
\* an image is set; and save and copy are enabled only while there is a
\* merged canvas
C27_ResetClearsPreview ==
    /\ (app.emptied /\ ~app.isProcessing /\ app.flights = << >>) =>
           (~app.mergedCanvas.present /\ ~app.buttons)
    /\ app.buttons => app.mergedCanvas.present


\* C30: at most one merge started by updatePreview is in flight at any time,
\* isProcessing is true exactly while one is, and whenever isProcessing is
\* true it becomes false again, whether the merge returns or throws
C30_OnePreviewAtATime ==
    /\ [](Len(app.flights) <= 1 /\ (app.isProcessing <=> app.flights # << >>))
    /\ (app.isProcessing ~> ~app.isProcessing)

\* A merge is in flight, and the app has changed since it started: an
\* updatePreview call was turned away by the guard
C30_Witness ==
    /\ app.isProcessing
    /\ Len(app.flights) = 1
    /\ HasAny(app.images)
    /\ app.flights[1] # CurrentSnapshot


\* C28: the image's transform.crop changes only in the step that saves and
\* closes the crop editor; opening the editor, dragging or resizing the
\* selection and cancelling leave it exactly as it was
C28_OnlySaveChangesCrop ==
    [][editor'.crop # editor.crop => (editor.active /\ ~editor'.active)]_vars


\* C29: a run of the interactive batch merges the groups that were queued when
\* it started, in order, whatever is cleared, removed or dropped meanwhile:
\* no pass finds its group missing, every attempted group is the queued group
\* of that position, and a run that ends without a failure has attempted them
\* all
C29_RunUsesQueuedGroups ==
    /\ queue.fault # "read"
    /\ Len(queue.attempted) <= Len(queue.queued)
    /\ \A k \in DOMAIN queue.attempted : queue.attempted[k] = queue.queued[k]
    /\ (RunEnded /\ queue.fault = "none") => queue.attempted = queue.queued

=============================================================================
